---- MODULE Spec2Model ----
(***************************************************************************)
(* NN-XOR: the turning-point slice (XOR_Slice), the dense per-step array   *)
(* store (XOR_array_model) and the timeline controller (XOR_model) of      *)
(* src/src/models.py, with the function library and the propagation        *)
(* engine of src/src/core.py.                                              *)
(*                                                                         *)
(* Numbers.  numpy float64 values (weights, activations, losses) are       *)
(* fixed-point integers with FX units per 1.0; the learning rate is kept   *)
(* in hundredths (the code rounds it to two decimals).  The numpy          *)
(* Generator is a linear congruential stream: default_rng(seed) fixes the  *)
(* start, every draw advances the stream by one position.                  *)
(***************************************************************************)
EXTENDS Integers, Sequences, FiniteSets, TLC

(***************************************************************************)
(* Bounds of the model                                                     *)
(***************************************************************************)
MaxCount == 5
MaxTrims == 1
MaxTP == 3
MaxLocked == 2
MaxScenarioCount == 20
MaxTabs == 3
MaxLabels == 3
Seeds == {5, 7}
EpochEdits == {1, 2}
PercentEdits == {0, 30, 50, 100}
ScenarioEpochs == {5, 7, 8}
WeightEdits == {0}
ProgressEpochs == {1, 2, 3}

(***************************************************************************)
(* Constants of the program                                                *)
(***************************************************************************)
FX == 10
MAX_LEN_FILENAME_JSON == 50
LEAKY_DIV == 10
BATCH_SIZE == <<1, 2>>
EPOCH_SIZE == <<2, 3>>
CYCLES_PER_EPOCH == <<1, 2>>
X_BATCH_4 == << <<0, 0>>, <<0, 1>>, <<1, 0>>, <<1, 1>> >>
Y_XOR_TRUE_4 == <<0, 1, 1, 0>>
HiddenLayer == <<"sigmoid", "ReLU", "LeakyReLU", "tanh", "linear">>
OutputLayer == <<"sigmoid", "ReLU", "tanh", "linear", "BinaryStop">>
LossFunction == <<"LCE_Loss", "Hinge_Loss", "Squared_Hinge_Loss", "Hinge_Loss_0_1", "Squared_Hinge_Loss_0_1">>
ColumnsMap == {"batch_size", "epoch_size", "cyclesPerOneStepFwdOfEpoch", "learning_rate", "minRange", "maxRange", "activation1", "activation2", "loss"}
listColumnMap == <<"batch_size", "epoch_size", "cyclesPerOneStepFwdOfEpoch", "learning_rate", "minRange", "activation1", "activation2", "loss">>

(***************************************************************************)
(* numpy helpers                                                           *)
(***************************************************************************)
Min(a, b) == IF a <= b THEN a ELSE b
Max(a, b) == IF a >= b THEN a ELSE b
np_clip(v, lo, hi) == Min(Max(v, lo), hi)
RECURSIVE np_sum(_)
np_sum(s) == IF Len(s) = 0 THEN 0 ELSE Head(s) + np_sum(Tail(s))
(* np.copy of a vector and of a matrix: a materialised array, element by element *)
np_copy_row(s) == SubSeq(s, 1, Len(s))
np_copy(w) == np_copy_row([r \in DOMAIN w |-> np_copy_row(w[r])])
mat_clip(w, lo, hi) == np_copy([r \in DOMAIN w |-> [c \in DOMAIN w[r] |-> np_clip(w[r][c], lo, hi)]])
zeros(rows, cols) == np_copy([r \in 1..rows |-> [c \in 1..cols |-> 0]])
(* an assignment `name = value`: the value is computed once, then used *)
assign(value, rest(_)) == CHOOSE out \in {rest(name) : name \in {value}} : TRUE
(* numpy.random.default_rng(seed) and the position of the k-th draw *)
default_rng(seed) == (seed * 31 + 17) % 65537
rng_next(s) == (75 * s + 74) % 65537
RECURSIVE rng_at(_, _)
rng_at(rng, k) == IF k = 0 THEN rng ELSE rng_at(rng_next(rng), k - 1)
rng_choice(rng, k, lst) == lst[(rng_at(rng, k) % Len(lst)) + 1]
rng_random100(rng, k) == rng_at(rng, k) % 100
rng_integers(rng, k, lo, hi) == lo + (rng_at(rng, k) % (hi - lo + 1))
rng_uniform(rng, k, lo, hi) == lo * FX + (((hi - lo) * FX * rng_random100(rng, k)) \div 100)

(***************************************************************************)
(* Function library (core.py)                                              *)
(***************************************************************************)
act_value(name, z) ==
    CASE name = "sigmoid" -> np_clip((FX \div 2) + (z \div 4), 0, FX)
      [] name = "ReLU" -> Max(0, z)
      [] name = "LeakyReLU" -> IF z >= 0 THEN z ELSE z \div LEAKY_DIV
      [] name = "tanh" -> np_clip(z, 0 - FX, FX)
      [] name = "linear" -> z
      [] name = "BinaryStop" -> IF z > 0 THEN FX ELSE 0

act_derivative(name, a) ==
    CASE name = "sigmoid" -> (np_clip(a, 1, FX - 1) * (FX - np_clip(a, 1, FX - 1))) \div FX
      [] name = "ReLU" -> IF a > 0 THEN FX ELSE 0
      [] name = "LeakyReLU" -> IF a > 0 THEN FX ELSE IF a = 0 THEN 0 ELSE FX \div LEAKY_DIV
      [] name = "tanh" -> FX - ((a * a) \div FX)
      [] name = "linear" -> FX
      [] name = "BinaryStop" -> 0

loss_sign(y) == IF y = 0 THEN 0 - 1 ELSE y
loss_input(name, a) ==
    CASE name = "LCE_Loss" -> np_clip(a, 1, FX - 1)
      [] name \in {"Hinge_Loss", "Squared_Hinge_Loss"} -> a
      [] name \in {"Hinge_Loss_0_1", "Squared_Hinge_Loss_0_1"} -> a * 2 - FX

loss_value(name, a, y) ==
    LET _a == loss_input(name, a)
        t == loss_sign(y)
    IN  CASE name = "LCE_Loss" -> IF y = 1 THEN FX - _a ELSE _a
          [] name \in {"Hinge_Loss", "Hinge_Loss_0_1"} -> Max(0, FX - t * _a)
          [] name \in {"Squared_Hinge_Loss", "Squared_Hinge_Loss_0_1"} ->
                (Max(0, FX - t * _a) * Max(0, FX - t * _a)) \div FX

loss_derivative(name, a, y) ==
    LET _a == loss_input(name, a)
        t == loss_sign(y)
    IN  CASE name = "LCE_Loss" -> IF y = 1 THEN 0 - ((FX * FX) \div _a) ELSE (FX * FX) \div (FX - _a)
          [] name \in {"Hinge_Loss", "Hinge_Loss_0_1"} -> IF t * _a < FX THEN 0 - t * FX ELSE 0
          [] name \in {"Squared_Hinge_Loss", "Squared_Hinge_Loss_0_1"} -> 0 - 2 * t * Max(0, FX - t * _a)

loss_cost(name, a2col, yParam) ==
    np_sum([i \in 1..Len(a2col) |-> loss_value(name, a2col[i], yParam[i])]) \div Len(a2col)

(***************************************************************************)
(* Propagation engine (core.py)                                            *)
(***************************************************************************)
(* z1, a1, z2, a2 of one input row x = <<x0, x1>> *)
forward_z1(x, w1) == [c \in 1..2 |-> x[1] * w1[1][c] + x[2] * w1[2][c] + w1[3][c]]
forward_a1(x, w1, activation1) == [c \in 1..2 |-> act_value(activation1, forward_z1(x, w1)[c])]
forward_z2(a1, w2) == ((a1[1] * w2[1][1] + a1[2] * w2[2][1]) \div FX) + w2[3][1]

XOR_forward_prop(x, w1, activation1, w2, activation2) ==
    LET a1 == np_copy([k \in DOMAIN x |-> forward_a1(x[k], w1, activation1)])
        a2 == np_copy_row([k \in DOMAIN x |-> act_value(activation2, forward_z2(a1[k], w2))])
    IN  [a1 |-> a1, a2 |-> a2]

XOR_back_prop(x, activation1, a1, w2, activation2, a2, y_true, fctLoss) ==
    LET m == Len(x)
        delta2 == np_copy_row([k \in 1..m |-> (loss_derivative(fctLoss, a2[k], y_true[k])
                                    * act_derivative(activation2, a2[k])) \div FX])
        a1_b == [k \in 1..m |-> <<a1[k][1], a1[k][2], FX>>]
        x_b == [k \in 1..m |-> <<x[k][1], x[k][2], 1>>]
        dLoss_dw2 == [j \in 1..3 |-> << np_sum([k \in 1..m |-> a1_b[k][j] * delta2[k]]) \div (FX * m) >>]
        d1 == np_copy([k \in 1..m |-> [c \in 1..2 |->
                  (((delta2[k] * w2[c][1]) \div FX) * act_derivative(activation1, a1[k][c])) \div FX]])
        dLoss_dw1 == [j \in 1..3 |-> [c \in 1..2 |->
                  np_sum([k \in 1..m |-> x_b[k][j] * d1[k][c]]) \div m]]
    IN  [dw1 |-> np_copy(dLoss_dw1), dw2 |-> np_copy(dLoss_dw2)]

(***************************************************************************)
(* XOR_Slice (models.py)                                                   *)
(***************************************************************************)
(* XOR_Slice(-1): the invalid slice used for cloning and as the unique     *)
(* current-slice object                                                    *)
XOR_Slice_invalid ==
    [ seedTP |-> 0 - 1, index |-> 0 - 1, batch_size |-> 1, epoch_size |-> 1,
      cyclesPerOneStepFwdOfEpoch |-> 1, learning_rate |-> 10,
      activation1 |-> "ReLU", activation2 |-> "sigmoid", loss |-> "LCE_Loss",
      xPercents |-> <<10, 20, 30, 40>>, yParam |-> Y_XOR_TRUE_4,
      xHits |-> <<0 - 1, 0 - 1, 0 - 1, 0 - 1>>, minRange |-> 0, maxRange |-> 0,
      w1 |-> zeros(3, 2), w1_lock |-> zeros(3, 2), a1 |-> zeros(4, 2), z1 |-> zeros(4, 2),
      w2 |-> zeros(3, 1), w2_lock |-> zeros(3, 1), z2 |-> zeros(4, 1), y_aka_a2 |-> zeros(4, 1),
      lossAvg |-> FX, lossPerX |-> [r \in 1..4 |-> <<FX>>],
      views |-> {} ]

compute_z_a_loss(self) ==
    LET x == X_BATCH_4
        z1 == np_copy([r \in 1..4 |-> forward_z1(x[r], self.w1)])
        a1 == np_copy([r \in 1..4 |-> [c \in 1..2 |-> act_value(self.activation1, z1[r][c])]])
        z2 == np_copy([r \in 1..4 |-> << forward_z2(a1[r], self.w2) >>])
        a2 == np_copy([r \in 1..4 |-> << act_value(self.activation2, z2[r][1]) >>])
        a2col == np_copy_row([r \in 1..4 |-> a2[r][1]])
    IN  [self EXCEPT !.z1 = z1, !.a1 = a1, !.z2 = z2, !.y_aka_a2 = a2,
                     !.lossPerX = np_copy([r \in 1..4 |-> << loss_value(self.loss, a2col[r], self.yParam[r]) >>]),
                     !.lossAvg = loss_cost(self.loss, a2col, self.yParam)]

(* variant: the draw is added to the weight that is there *)
uniform_keep_locked_added(w, w_lock, rng, k0, lo, hi) ==
    np_copy([r \in DOMAIN w |-> [c \in DOMAIN w[r] |->
        w[r][c] + rng_uniform(rng, k0 + (r - 1) * Len(w[r]) + c, lo, hi) * (1 - w_lock[r][c])]])

(* variant: every entry is redrawn, locked or not *)
uniform_keep_locked_redrawn(w, w_lock, rng, k0, lo, hi) ==
    np_copy([r \in DOMAIN w |-> [c \in DOMAIN w[r] |->
        rng_uniform(rng, k0 + (r - 1) * Len(w[r]) + c, lo, hi)]])

(* w * w_lock + _rng.uniform(minRange, maxRange, shape) * (1 - w_lock) *)
uniform_keep_locked(w, w_lock, rng, k0, lo, hi) ==
    np_copy([r \in DOMAIN w |-> [c \in DOMAIN w[r] |->
        w[r][c] * w_lock[r][c]
        + rng_uniform(rng, k0 + (r - 1) * Len(w[r]) + c, lo, hi) * (1 - w_lock[r][c])]])

(* (_rng.dirichlet((1, 1, 1, 1)) * 100).astype(int), last bucket = the rest to 100 *)
dirichlet_percents(rng, k0) ==
    LET g == [i \in 1..4 |-> 1 + (rng_at(rng, k0 + i) % 97)]
        arrPc == [i \in 1..4 |-> (g[i] * 100) \div np_sum(g)]
    IN  <<arrPc[1], arrPc[2], arrPc[3], 100 - (arrPc[1] + arrPc[2] + arrPc[3])>>

(* variant: the draw of a locked column is not taken from the stream *)
feedFromSeed_skipping(self, seed, setColumnsLocked) ==
    LET _rng == default_rng(seed)
        skipped(names) == Cardinality(names \cap setColumnsLocked)
        k1 == 1
        k2 == 2 - skipped({"batch_size"})
        k3 == 3 - skipped({"batch_size", "epoch_size"})
        k4 == 4 - skipped({"batch_size", "epoch_size", "cyclesPerOneStepFwdOfEpoch"})
        k5 == 5 - skipped({"batch_size", "epoch_size", "cyclesPerOneStepFwdOfEpoch", "learning_rate"})
        k7 == 7 - skipped({"batch_size", "epoch_size", "cyclesPerOneStepFwdOfEpoch", "learning_rate"})
                - 2 * skipped({"minRange"})
        k8 == k7 + 1 - skipped({"activation1"})
        k9 == k8 + 1 - skipped({"activation2"})
        k10 == k9 + 1 - skipped({"loss"}) - 1
        s0 == [self EXCEPT !.seedTP = seed]
        s1 == IF "batch_size" \notin setColumnsLocked
              THEN [s0 EXCEPT !.batch_size = rng_choice(_rng, k1, BATCH_SIZE)] ELSE s0
        s2 == IF "epoch_size" \notin setColumnsLocked
              THEN [s1 EXCEPT !.epoch_size = rng_choice(_rng, k2, EPOCH_SIZE)] ELSE s1
        s3 == IF "cyclesPerOneStepFwdOfEpoch" \notin setColumnsLocked
              THEN [s2 EXCEPT !.cyclesPerOneStepFwdOfEpoch = rng_choice(_rng, k3, CYCLES_PER_EPOCH)] ELSE s2
        s4 == IF "learning_rate" \notin setColumnsLocked
              THEN [s3 EXCEPT !.learning_rate = ((rng_random100(_rng, k4) * 98) \div 100) + 1] ELSE s3
        _rng_Consumed == rng_integers(_rng, k5, 0 - 20, 19)
        _rng_Consumed2 == rng_integers(_rng, k5 + 1, _rng_Consumed + 1, 20)
        s5 == IF "minRange" \notin setColumnsLocked
              THEN [s4 EXCEPT !.minRange = _rng_Consumed, !.maxRange = _rng_Consumed2] ELSE s4
        s6 == IF "activation1" \notin setColumnsLocked
              THEN [s5 EXCEPT !.activation1 = rng_choice(_rng, k7, HiddenLayer)] ELSE s5
        s7 == IF "activation2" \notin setColumnsLocked
              THEN [s6 EXCEPT !.activation2 = rng_choice(_rng, k8, OutputLayer)] ELSE s6
        s8 == IF "loss" \notin setColumnsLocked
              THEN [s7 EXCEPT !.loss = rng_choice(_rng, k9, LossFunction)] ELSE s7
    IN  assign(s8, LAMBDA tp :
        assign(IF tp.index = 0
               THEN [tp EXCEPT !.xPercents = dirichlet_percents(_rng, k10),
                               !.yParam = Y_XOR_TRUE_4,
                               !.xHits = <<0, 0, 0, 0>>,
                               !.w1 = uniform_keep_locked(tp.w1, tp.w1_lock, _rng, k10 + 4, tp.minRange, tp.maxRange),
                               !.w2 = uniform_keep_locked(tp.w2, tp.w2_lock, _rng, k10 + 10, tp.minRange, tp.maxRange)]
               ELSE [tp EXCEPT !.w1 = mat_clip(tp.w1, tp.minRange * FX, tp.maxRange * FX),
                               !.w2 = mat_clip(tp.w2, tp.minRange * FX, tp.maxRange * FX)],
               LAMBDA clipped : compute_z_a_loss(clipped)))

feedFromSeed(self, seed, setColumnsLocked) ==
    LET _rng == default_rng(seed)
        s0 == [self EXCEPT !.seedTP = seed]
        s1 == IF "batch_size" \notin setColumnsLocked
              THEN [s0 EXCEPT !.batch_size = rng_choice(_rng, 1, BATCH_SIZE)] ELSE s0
        s2 == IF "epoch_size" \notin setColumnsLocked
              THEN [s1 EXCEPT !.epoch_size = rng_choice(_rng, 2, EPOCH_SIZE)] ELSE s1
        s3 == IF "cyclesPerOneStepFwdOfEpoch" \notin setColumnsLocked
              THEN [s2 EXCEPT !.cyclesPerOneStepFwdOfEpoch = rng_choice(_rng, 3, CYCLES_PER_EPOCH)] ELSE s2
        s4 == IF "learning_rate" \notin setColumnsLocked
              THEN [s3 EXCEPT !.learning_rate = ((rng_random100(_rng, 4) * 98) \div 100) + 1] ELSE s3
        _rng_Consumed == rng_integers(_rng, 5, 0 - 20, 19)
        _rng_Consumed2 == rng_integers(_rng, 6, _rng_Consumed + 1, 20)
        s5 == IF "minRange" \notin setColumnsLocked
              THEN [s4 EXCEPT !.minRange = _rng_Consumed, !.maxRange = _rng_Consumed2] ELSE s4
        s6 == IF "activation1" \notin setColumnsLocked
              THEN [s5 EXCEPT !.activation1 = rng_choice(_rng, 7, HiddenLayer)] ELSE s5
        s7 == IF "activation2" \notin setColumnsLocked
              THEN [s6 EXCEPT !.activation2 = rng_choice(_rng, 8, OutputLayer)] ELSE s6
        s8 == IF "loss" \notin setColumnsLocked
              THEN [s7 EXCEPT !.loss = rng_choice(_rng, 9, LossFunction)] ELSE s7
    IN  assign(s8, LAMBDA tp :
        assign(IF tp.index = 0
               THEN [tp EXCEPT !.xPercents = dirichlet_percents(_rng, 9),
                               !.yParam = Y_XOR_TRUE_4,
                               !.xHits = <<0, 0, 0, 0>>,
                               !.w1 = uniform_keep_locked(tp.w1, tp.w1_lock, _rng, 13, tp.minRange, tp.maxRange),
                               !.w2 = uniform_keep_locked(tp.w2, tp.w2_lock, _rng, 19, tp.minRange, tp.maxRange)]
               ELSE [tp EXCEPT !.w1 = mat_clip(tp.w1, tp.minRange * FX, tp.maxRange * FX),
                               !.w2 = mat_clip(tp.w2, tp.minRange * FX, tp.maxRange * FX)],
               LAMBDA clipped : compute_z_a_loss(clipped)))

(* XOR_Slice.__init__ of a seed >= 0, before its call of feedFromSeed *)
XOR_Slice_init(argTP) ==
    [XOR_Slice_invalid EXCEPT !.seedTP = argTP, !.index = 0,
                              !.xHits = <<0, 0, 0, 0>>, !.lossPerX = [r \in 1..4 |-> <<FX>>]]

(* XOR_Slice(seed) for seed >= 0 *)
XOR_Slice(argTP) ==
    IF argTP = 0 - 1 THEN XOR_Slice_invalid
    ELSE feedFromSeed(XOR_Slice_init(argTP), argTP, {})

(* XOR_Slice.__eq__ *)
slice_eq(a, b) ==
    /\ a.index = b.index /\ a.xPercents = b.xPercents /\ a.yParam = b.yParam
    /\ a.epoch_size = b.epoch_size /\ a.batch_size = b.batch_size
    /\ a.learning_rate = b.learning_rate
    /\ a.w1 = b.w1 /\ a.w1_lock = b.w1_lock /\ a.activation1 = b.activation1
    /\ a.w2 = b.w2 /\ a.w2_lock = b.w2_lock /\ a.activation2 = b.activation2
    /\ a.loss = b.loss /\ a.minRange = b.minRange /\ a.maxRange = b.maxRange
    /\ a.cyclesPerOneStepFwdOfEpoch = b.cyclesPerOneStepFwdOfEpoch

(* XOR_Slice.clone: a new slice with copies of every array. The field     *)
(* views of a slice holds the rows of the array store its arrays are numpy *)
(* views of; the arrays of a clone are np.copy buffers of their own        *)
slice_clone(self) == [self EXCEPT !.views = {}]

(* XOR_Slice.diff: the TP mark and the list of changed parts *)
slice_diff_changes(slice1, slice2) ==
    {lbl \in {"% distribution", "yTrue", "W1 weights", "W1 lock", "bias 1", "bias 1 lock",
              "Activation 1", "W2 weights", "W2 lock", "bias 2", "bias 2 lock", "Activation 2",
              "Loss", "Batch size", "Epoch size", "Cycles / Epoch", "Learning Rate", "Clip values"} :
        CASE lbl = "% distribution" -> slice1.xPercents # slice2.xPercents
          [] lbl = "yTrue" -> slice1.yParam # slice2.yParam
          [] lbl = "W1 weights" -> SubSeq(slice1.w1, 1, 2) # SubSeq(slice2.w1, 1, 2)
          [] lbl = "W1 lock" -> SubSeq(slice1.w1_lock, 1, 2) # SubSeq(slice2.w1_lock, 1, 2)
          [] lbl = "bias 1" -> slice1.w1[3] # slice2.w1[3]
          [] lbl = "bias 1 lock" -> slice1.w1_lock[3] # slice2.w1_lock[3]
          [] lbl = "Activation 1" -> slice1.activation1 # slice2.activation1
          [] lbl = "W2 weights" -> SubSeq(slice1.w2, 1, 2) # SubSeq(slice2.w2, 1, 2)
          [] lbl = "W2 lock" -> SubSeq(slice1.w2_lock, 1, 2) # SubSeq(slice2.w2_lock, 1, 2)
          [] lbl = "bias 2" -> slice1.w2[3] # slice2.w2[3]
          [] lbl = "bias 2 lock" -> slice1.w2_lock[3] # slice2.w2_lock[3]
          [] lbl = "Activation 2" -> slice1.activation2 # slice2.activation2
          [] lbl = "Loss" -> slice1.loss # slice2.loss
          [] lbl = "Batch size" -> slice1.batch_size # slice2.batch_size
          [] lbl = "Epoch size" -> slice1.epoch_size # slice2.epoch_size
          [] lbl = "Cycles / Epoch" -> slice1.cyclesPerOneStepFwdOfEpoch # slice2.cyclesPerOneStepFwdOfEpoch
          [] lbl = "Learning Rate" -> slice1.learning_rate # slice2.learning_rate
          [] lbl = "Clip values" -> slice1.minRange # slice2.minRange \/ slice1.maxRange # slice2.maxRange}

slice_diff(slice1, slice2, hasSlice2) ==
    [mark |-> slice1.index,
     changes |-> IF hasSlice2 THEN slice_diff_changes(slice1, slice2) ELSE {},
     loss |-> 0]

(* XOR_Slice.toJson: the serialized keys of a turning point *)
toJson(self) ==
    [index |-> self.index, seedTP |-> self.seedTP, batch_size |-> self.batch_size,
     epoch_size |-> self.epoch_size,
     cyclesPerOneStepFwdOfEpoch |-> self.cyclesPerOneStepFwdOfEpoch,
     learning_rate |-> self.learning_rate, minRange |-> self.minRange,
     maxRange |-> self.maxRange, yParam |-> self.yParam, xPercents |-> self.xPercents,
     w1 |-> self.w1, w1_lock |-> self.w1_lock, activation1 |-> self.activation1,
     w2 |-> self.w2, w2_lock |-> self.w2_lock, activation2 |-> self.activation2,
     loss |-> self.loss]

seq_contains(lst, v) == \E i \in 1..Len(lst) : lst[i] = v

(* variant: an unknown function name is kept as it was read               *)
fromJson_keeping(self, json_object) ==
    [self EXCEPT
        !.index = json_object.index, !.seedTP = json_object.seedTP,
        !.batch_size = json_object.batch_size, !.epoch_size = json_object.epoch_size,
        !.cyclesPerOneStepFwdOfEpoch = json_object.cyclesPerOneStepFwdOfEpoch,
        !.learning_rate = json_object.learning_rate,
        !.minRange = json_object.minRange, !.maxRange = json_object.maxRange,
        !.yParam = json_object.yParam, !.xPercents = json_object.xPercents,
        !.w1 = json_object.w1, !.w1_lock = json_object.w1_lock,
        !.activation1 = json_object.activation1,
        !.w2 = json_object.w2, !.w2_lock = json_object.w2_lock,
        !.activation2 = json_object.activation2,
        !.loss = json_object.loss]

(* XOR_Slice.fromJson: the keys of the JSON object set on the slice; a     *)
(* function name that is missing is read as "" (.get); a name that is not  *)
(* in its registry is reset to the first name of a registry               *)
fromJson(self, json_object) ==
    [self EXCEPT
        !.index = json_object.index, !.seedTP = json_object.seedTP,
        !.batch_size = json_object.batch_size, !.epoch_size = json_object.epoch_size,
        !.cyclesPerOneStepFwdOfEpoch = json_object.cyclesPerOneStepFwdOfEpoch,
        !.learning_rate = json_object.learning_rate,
        !.minRange = json_object.minRange, !.maxRange = json_object.maxRange,
        !.yParam = json_object.yParam, !.xPercents = json_object.xPercents,
        !.w1 = json_object.w1, !.w1_lock = json_object.w1_lock,
        !.activation1 = IF seq_contains(HiddenLayer, json_object.activation1)
                        THEN json_object.activation1 ELSE HiddenLayer[1],
        !.w2 = json_object.w2, !.w2_lock = json_object.w2_lock,
        !.activation2 = IF seq_contains(OutputLayer, json_object.activation2)
                        THEN json_object.activation2 ELSE HiddenLayer[1],
        !.loss = IF seq_contains(LossFunction, json_object.loss)
                 THEN json_object.loss ELSE LossFunction[1]]

(***************************************************************************)
(* XOR_array_model (models.py): a sequence of per-step records; position   *)
(* ix of the code is element ix + 1                                        *)
(***************************************************************************)
XOR_array_model ==
    << [xHits |-> <<0, 0, 0, 0>>, w1 |-> zeros(3, 2), z1 |-> zeros(4, 2), a1 |-> zeros(4, 2),
        w2 |-> zeros(3, 1), z2 |-> zeros(4, 1), y_aka_a2 |-> zeros(4, 1),
        lossPerX |-> zeros(4, 1), lossAvg |-> 0] >>

array_count(arr) == Len(arr)

(* rng.choice([0, 1, 2, 3], p=p_distribution) for one sample: the last     *)
(* class gets the probability 1 - sum of the others                        *)
pick_class(u, xPercents) ==
    IF u < xPercents[1] THEN 1
    ELSE IF u < xPercents[1] + xPercents[2] THEN 2
    ELSE IF u < xPercents[1] + xPercents[2] + xPercents[3] THEN 3
    ELSE 4

(* variant: the lock mask is not applied *)
update_weights_unlocked(w, dw, w_lock, fromTP) ==
    np_copy([r \in DOMAIN w |-> [c \in DOMAIN w[r] |->
        np_clip(w[r][c] - ((dw[r][c] * fromTP.learning_rate) \div 100),
                fromTP.minRange * FX, fromTP.maxRange * FX)]])

(* w <- clip(w - dw * learning_rate) * (1 - lock) + w * lock *)
update_weights(w, dw, w_lock, fromTP) ==
    np_copy([r \in DOMAIN w |-> [c \in DOMAIN w[r] |->
        np_clip(w[r][c] - ((dw[r][c] * fromTP.learning_rate) \div 100),
                fromTP.minRange * FX, fromTP.maxRange * FX) * (1 - w_lock[r][c])
        + w[r][c] * w_lock[r][c]]])

(* one forward/backward cycle of fillModel on a mini-batch; st carries     *)
(* w1, w2, the hits so far and the number of draws taken from rng          *)
fill_cycle(fromTP, st, rng) ==
    LET hits == np_copy_row([k \in 1..fromTP.batch_size |->
                    pick_class(rng_random100(rng, st.pos + k), fromTP.xPercents)])
        x == [k \in 1..fromTP.batch_size |-> X_BATCH_4[hits[k]]]
        y_true == [k \in 1..fromTP.batch_size |-> fromTP.yParam[hits[k]]]
        computed == XOR_forward_prop(x, st.w1, fromTP.activation1, st.w2, fromTP.activation2)
        d == XOR_back_prop(x, fromTP.activation1, computed.a1, st.w2, fromTP.activation2,
                           computed.a2, y_true, fromTP.loss)
    IN  [xHits |-> np_copy_row([c \in 1..4 |->
                      st.xHits[c] + Cardinality({k \in 1..fromTP.batch_size : hits[k] = c})]),
         w2 |-> update_weights(st.w2, d.dw2, fromTP.w2_lock, fromTP),
         w1 |-> update_weights(st.w1, d.dw1, fromTP.w1_lock, fromTP),
         pos |-> st.pos + fromTP.batch_size]

RECURSIVE fill_cycles(_, _, _, _)
fill_cycles(fromTP, st, rng, n) ==
    IF n = 0 THEN st ELSE fill_cycles(fromTP, fill_cycle(fromTP, st, rng), rng, n - 1)

(* the bulk evaluation of z1, a1, z2, a2, lossPerX and lossAvg of one step *)
fill_evaluate(fromTP, st) ==
    LET e == compute_z_a_loss([fromTP EXCEPT !.w1 = st.w1, !.w2 = st.w2])
    IN  [xHits |-> st.xHits, w1 |-> st.w1, z1 |-> e.z1, a1 |-> e.a1, w2 |-> st.w2, z2 |-> e.z2,
         y_aka_a2 |-> e.y_aka_a2, lossPerX |-> e.lossPerX, lossAvg |-> e.lossAvg]

(* the training loop: steps i = 1 .. epoch_size - 1, each from step i - 1 *)
RECURSIVE fill_steps(_, _, _, _)
fill_steps(fromTP, steps, rng, i) ==
    IF i >= fromTP.epoch_size THEN steps
    ELSE fill_steps(fromTP,
                    Append(steps, fill_cycles(fromTP, steps[Len(steps)], rng,
                                              fromTP.cyclesPerOneStepFwdOfEpoch)),
                    rng, i + 1)

fillModel(fromTP) ==
    LET rng == default_rng(fromTP.index + (IF fromTP.seedTP >= 0 THEN fromTP.seedTP ELSE 0))
        step0 == [xHits |-> <<0, 0, 0, 0>>,
                  w1 |-> np_copy(mat_clip(fromTP.w1, fromTP.minRange * FX, fromTP.maxRange * FX)),
                  w2 |-> np_copy(mat_clip(fromTP.w2, fromTP.minRange * FX, fromTP.maxRange * FX)),
                  pos |-> 0]
        steps == fill_steps(fromTP, <<step0>>, rng, 1)
    IN  [i \in 1..Len(steps) |-> fill_evaluate(fromTP, steps[i])]

(* variant: the hits keep the counts of the positions cut away *)
array_deleteBefore_unrebased(arr, ix0) ==
    LET ix == Min(Max(0, ix0), array_count(arr) - 1)
    IN  SubSeq(arr, ix + 1, Len(arr))

(* variant: the cut starts one position late *)
array_deleteBefore_late(arr, ix0) ==
    LET ix == Min(Max(0, ix0), array_count(arr) - 1)
        from == Min(ix + 1, array_count(arr) - 1)
        xHitsOnPos == arr[from + 1].xHits
    IN  [p \in 1..(Len(arr) - from) |->
            [arr[p + from] EXCEPT !.xHits = [c \in 1..4 |-> arr[p + from].xHits[c] - xHitsOnPos[c]]]]

array_deleteBefore(arr, ix0) ==
    LET ix == Min(Max(0, ix0), array_count(arr) - 1)
        xHitsOnPos == arr[ix + 1].xHits
    IN  [p \in 1..(Len(arr) - ix) |->
            [arr[p + ix] EXCEPT !.xHits = [c \in 1..4 |-> arr[p + ix].xHits[c] - xHitsOnPos[c]]]]

(* variant: the position ix itself is cut as well *)
array_deleteAfter_excluding(arr, ix) == SubSeq(arr, 1, Min(ix, Len(arr)))

array_deleteAfter(arr, ix) == SubSeq(arr, 1, Min(ix + 1, Len(arr)))

array_append(arr, newArray) ==
    IF Len(arr) > 0
    THEN arr \o [p \in 1..Len(newArray) |->
                    [newArray[p] EXCEPT !.xHits = [c \in 1..4 |-> newArray[p].xHits[c] + arr[Len(arr)].xHits[c]]]]
    ELSE newArray

(***************************************************************************)
(* XOR_model (models.py): the timeline controller, a record of its fields  *)
(***************************************************************************)
count(m) == array_count(m.xor_array)
getPos(m) == m.crtSlice.index
getHTML_loss(val_loss) == val_loss
Last(lst) == lst[Len(lst)]
Front(lst) == SubSeq(lst, 1, Len(lst) - 1)

(* list.index(item): the first element that is the item or equals it      *)
list_index(lst, j) ==
    (CHOOSE i \in 1..Len(lst) :
        /\ (i = j \/ slice_eq(lst[i], lst[j]))
        /\ \A k \in 1..(i - 1) : ~(k = j \/ slice_eq(lst[k], lst[j]))) - 1

(* variant: the current slice takes the attributes of tp as they are       *)
setTPData_shared(m, tp) ==
    [m EXCEPT !.Crt_ORIGINAL_Slice = slice_clone(tp), !.crtSlice = tp]

(* TPModel.setTPData: the current slice and the original of the re-clip    *)
setTPData(m, tp) ==
    [m EXCEPT !.Crt_ORIGINAL_Slice = slice_clone(tp), !.crtSlice = slice_clone(tp)]

(* variant: the scan runs forward and stops at the first turning point     *)
(* with index <= ix                                                        *)
setPos_forward(m, ix0) ==
    LET ix == IF ix0 >= count(m) THEN count(m) - 1 ELSE ix0
        lst == m.lstTurningPoints
        found == {j \in 1..Len(lst) : lst[j].index <= ix}
    IN  IF found = {} THEN m
        ELSE LET j == CHOOSE i \in found : \A k \in found : k >= i
                 p == IF ix >= 0 THEN ix + 1 ELSE count(m) + ix + 1
                 baseTP == [slice_clone(lst[j]) EXCEPT
                               !.index = ix,
                               !.xHits = m.xor_array[p].xHits,
                               !.w1 = m.xor_array[p].w1, !.z1 = m.xor_array[p].z1,
                               !.a1 = m.xor_array[p].a1, !.w2 = m.xor_array[p].w2,
                               !.z2 = m.xor_array[p].z2, !.y_aka_a2 = m.xor_array[p].y_aka_a2,
                               !.lossAvg = m.xor_array[p].lossAvg,
                               !.lossPerX = m.xor_array[p].lossPerX,
                               !.views = {p}]
             IN  setTPData([m EXCEPT !.indexOfCrtBaseTP_in_lstTurningPoints = list_index(lst, j)],
                           baseTP)

setPos(m, ix0) ==
    LET ix == IF ix0 >= count(m) THEN count(m) - 1 ELSE ix0
        lst == m.lstTurningPoints
        found == {j \in 1..Len(lst) : lst[j].index <= ix}
    IN  IF found = {} THEN m
        ELSE LET j == CHOOSE i \in found : \A k \in found : k <= i
                 p == IF ix >= 0 THEN ix + 1 ELSE count(m) + ix + 1
                 baseTP == [slice_clone(lst[j]) EXCEPT
                               !.index = ix,
                               !.xHits = m.xor_array[p].xHits,
                               !.w1 = m.xor_array[p].w1, !.z1 = m.xor_array[p].z1,
                               !.a1 = m.xor_array[p].a1, !.w2 = m.xor_array[p].w2,
                               !.z2 = m.xor_array[p].z2, !.y_aka_a2 = m.xor_array[p].y_aka_a2,
                               !.lossAvg = m.xor_array[p].lossAvg,
                               !.lossPerX = m.xor_array[p].lossPerX,
                               !.views = {p}]
             IN  setTPData([m EXCEPT !.indexOfCrtBaseTP_in_lstTurningPoints = list_index(lst, j)],
                           baseTP)

(* variant: only the list of the turning points is popped *)
RECURSIVE pop_after_keeping_texts(_, _)
pop_after_keeping_texts(m, ix) ==
    IF Last(m.lstTurningPoints).index > ix
    THEN pop_after_keeping_texts([m EXCEPT !.lstTurningPoints = Front(@)], ix)
    ELSE m

(* variant: nothing is popped *)
pop_after_none(m, ix) == m

(* the pops of `while self.lstTurningPoints[-1].index > ix` *)
RECURSIVE pop_after(_, _)
pop_after(m, ix) ==
    IF Last(m.lstTurningPoints).index > ix
    THEN pop_after([m EXCEPT !.lstTurningPoints = Front(@),
                             !.lstTurningPointsDiff = Front(@),
                             !.lst_TP_Final_Loss = Front(@)], ix)
    ELSE m

(* the position a fill ends on, which is the argument of sigModelChanged *)
fillModelFromTP_ix(newTP, filled, stay) ==
    IF stay THEN newTP.index ELSE count(filled) - 1

fillModelFromTP(m, argTP, stay) ==
    LET newTP0 == slice_clone(argTP)
        after_pops(m1) ==
            LET bNewTP_is_In_list == (newTP0.index = Last(m1.lstTurningPoints).index)
                arr1 == IF ~bNewTP_is_In_list
                        THEN array_deleteAfter(m1.xor_array, newTP0.index)
                        ELSE array_deleteAfter(m1.xor_array, newTP0.index - 1)
                newTP == IF ~bNewTP_is_In_list THEN [newTP0 EXCEPT !.index = @ + 1] ELSE newTP0
                tps2 == IF ~bNewTP_is_In_list
                        THEN [m1.lstTurningPoints EXCEPT ![Len(m1.lstTurningPoints)].epoch_size =
                                  array_count(arr1) - Last(m1.lstTurningPoints).index]
                        ELSE Front(m1.lstTurningPoints)
                diffs2 == SubSeq(m1.lstTurningPointsDiff, 1, Min(Len(tps2), Len(m1.lstTurningPointsDiff)))
                losses2 == SubSeq(m1.lst_TP_Final_Loss, 1, Min(Len(tps2), Len(m1.lst_TP_Final_Loss)))
                after_fill(newArray) ==
                    LET val_NewArrayLastLoss == Last(newArray).lossAvg
                        strDiff0 == IF Len(tps2) > 0
                                    THEN slice_diff(newTP, [slice_clone(Last(tps2)) EXCEPT
                                                               !.w1 = Last(arr1).w1,
                                                               !.w2 = Last(arr1).w2], TRUE)
                                    ELSE slice_diff(newTP, newTP, FALSE)
                        strDiff == [strDiff0 EXCEPT !.loss = getHTML_loss(val_NewArrayLastLoss)]
                        m2 == [m1 EXCEPT !.xor_array = array_append(arr1, newArray),
                                         !.lstTurningPointsDiff = Append(diffs2, strDiff),
                                         !.lstTurningPoints = Append(tps2, newTP),
                                         !.lst_TP_Final_Loss = Append(losses2, val_NewArrayLastLoss)]
                    IN  assign(m2, LAMBDA filled :
                            setPos(filled, fillModelFromTP_ix(newTP, filled, stay)))
            IN  assign(fillModel(newTP), after_fill)
    IN  assign(pop_after(m, newTP0.index), after_pops)

(* variant: the position stays the one the cut was made at *)
deleteBefore_staying(m, ix0) ==
    LET ix == Min(Max(0, ix0), count(m) - 1)
        arr1 == array_deleteBefore(m.xor_array, ix)
        lst == m.lstTurningPoints
        (* the loop stops at the first turning point with index > ix *)
        tp_ix == IF \E i \in 1..Len(lst) : lst[i].index > ix
                 THEN LET stop == CHOOSE i \in 1..Len(lst) :
                                      lst[i].index > ix /\ \A k \in 1..(i - 1) : lst[k].index <= ix
                      IN  IF stop = 1 THEN 0 ELSE stop - 2
                 ELSE Len(lst) - 1
        tps1 == SubSeq(lst, tp_ix + 1, Len(lst))
        diffs1 == SubSeq(m.lstTurningPointsDiff, tp_ix + 1, Len(m.lstTurningPointsDiff))
        losses1 == SubSeq(m.lst_TP_Final_Loss, tp_ix + 1, Len(m.lst_TP_Final_Loss))
        tps2 == np_copy_row([i \in 1..Len(tps1) |-> [tps1[i] EXCEPT !.index = @ - ix]])
        diffs2 == np_copy_row([i \in 1..Len(diffs1) |->
                      IF i <= Len(tps1) /\ diffs1[i].mark = tps1[i].index
                      THEN [diffs1[i] EXCEPT !.mark = tps2[i].index] ELSE diffs1[i]])
        tps3 == [tps2 EXCEPT ![1].index = 0,
                             ![1].epoch_size = IF Len(tps2) = 1 THEN array_count(arr1)
                                               ELSE tps2[2].index]
        diff0 == [slice_diff(tps3[1], tps3[1], FALSE) EXCEPT
                     !.loss = getHTML_loss(arr1[tps3[1].epoch_size].lossAvg)]
        m1 == [m EXCEPT !.xor_array = arr1, !.lstTurningPoints = tps3,
                        !.lstTurningPointsDiff = [diffs2 EXCEPT ![1] = diff0],
                        !.lst_TP_Final_Loss = losses1]
    IN  setPos(m1, ix)

(* variant: the first turning point keeps its shifted index *)
deleteBefore_unpinned(m, ix0) ==
    LET ix == Min(Max(0, ix0), count(m) - 1)
        arr1 == array_deleteBefore(m.xor_array, ix)
        lst == m.lstTurningPoints
        tp_ix == IF \E i \in 1..Len(lst) : lst[i].index > ix
                 THEN LET stop == CHOOSE i \in 1..Len(lst) :
                                      lst[i].index > ix /\ \A k \in 1..(i - 1) : lst[k].index <= ix
                      IN  IF stop = 1 THEN 0 ELSE stop - 2
                 ELSE Len(lst) - 1
        tps1 == SubSeq(lst, tp_ix + 1, Len(lst))
        tps2 == np_copy_row([i \in 1..Len(tps1) |-> [tps1[i] EXCEPT !.index = @ - ix]])
        tps3 == [tps2 EXCEPT ![1].epoch_size = IF Len(tps2) = 1 THEN array_count(arr1)
                                               ELSE tps2[2].index]
        m1 == [m EXCEPT !.xor_array = arr1, !.lstTurningPoints = tps3,
                        !.lstTurningPointsDiff = SubSeq(@, tp_ix + 1, Len(@)),
                        !.lst_TP_Final_Loss = SubSeq(@, tp_ix + 1, Len(@))]
    IN  [m1 EXCEPT !.crtSlice = [m.crtSlice EXCEPT !.index = 0]]

deleteBefore(m, ix0) ==
    LET ix == Min(Max(0, ix0), count(m) - 1)
        arr1 == array_deleteBefore(m.xor_array, ix)
        lst == m.lstTurningPoints
        (* the loop stops at the first turning point with index > ix *)
        tp_ix == IF \E i \in 1..Len(lst) : lst[i].index > ix
                 THEN LET stop == CHOOSE i \in 1..Len(lst) :
                                      lst[i].index > ix /\ \A k \in 1..(i - 1) : lst[k].index <= ix
                      IN  IF stop = 1 THEN 0 ELSE stop - 2
                 ELSE Len(lst) - 1
        tps1 == SubSeq(lst, tp_ix + 1, Len(lst))
        diffs1 == SubSeq(m.lstTurningPointsDiff, tp_ix + 1, Len(m.lstTurningPointsDiff))
        losses1 == SubSeq(m.lst_TP_Final_Loss, tp_ix + 1, Len(m.lst_TP_Final_Loss))
        tps2 == np_copy_row([i \in 1..Len(tps1) |-> [tps1[i] EXCEPT !.index = @ - ix]])
        diffs2 == np_copy_row([i \in 1..Len(diffs1) |->
                      IF i <= Len(tps1) /\ diffs1[i].mark = tps1[i].index
                      THEN [diffs1[i] EXCEPT !.mark = tps2[i].index] ELSE diffs1[i]])
        tps3 == [tps2 EXCEPT ![1].index = 0,
                             ![1].epoch_size = IF Len(tps2) = 1 THEN array_count(arr1)
                                               ELSE tps2[2].index]
        diff0 == [slice_diff(tps3[1], tps3[1], FALSE) EXCEPT
                     !.loss = getHTML_loss(arr1[tps3[1].epoch_size].lossAvg)]
        m1 == [m EXCEPT !.xor_array = arr1, !.lstTurningPoints = tps3,
                        !.lstTurningPointsDiff = [diffs2 EXCEPT ![1] = diff0],
                        !.lst_TP_Final_Loss = losses1]
    IN  setPos(m1, 0)

(* variant: the cut keeps position ix, also when ix > 0 *)
deleteAfterPos_inclusive(m, ix0) ==
    LET ix == ix0
        m1 == pop_after([m EXCEPT !.xor_array = array_deleteAfter(@, ix)], ix)
        n == Len(m1.lstTurningPoints)
        m2 == IF ix > 0
              THEN [m1 EXCEPT !.lstTurningPoints[n].epoch_size = count(m1) - m1.lstTurningPoints[n].index]
              ELSE m1
        m3 == [m2 EXCEPT !.lst_TP_Final_Loss[Len(m2.lst_TP_Final_Loss)] = Last(m2.xor_array).lossAvg]
    IN  setPos(m3, ix)

(* variant: the last turning point keeps its epoch_size after the cut *)
deleteAfterPos_stale(m, ix0) ==
    LET ix == IF ix0 > 0 THEN ix0 - 1 ELSE ix0
        m1 == pop_after([m EXCEPT !.xor_array = array_deleteAfter(@, ix)], ix)
        m3 == [m1 EXCEPT !.lst_TP_Final_Loss[Len(m1.lst_TP_Final_Loss)] = Last(m1.xor_array).lossAvg]
    IN  setPos(m3, ix)

deleteAfterPos(m, ix0) ==
    LET ix == IF ix0 > 0 THEN ix0 - 1 ELSE ix0
        m1 == pop_after([m EXCEPT !.xor_array = array_deleteAfter(@, ix)], ix)
        n == Len(m1.lstTurningPoints)
        m2 == IF ix > 0
              THEN [m1 EXCEPT !.lstTurningPoints[n].epoch_size = count(m1) - m1.lstTurningPoints[n].index]
              ELSE m1
        m3 == [m2 EXCEPT !.lst_TP_Final_Loss[Len(m2.lst_TP_Final_Loss)] = Last(m2.xor_array).lossAvg]
    IN  setPos(m3, ix)

(* a name is the sequence of its characters; None is no QFileInfo *)
None == <<"None">>
Model_1 == <<"M", "o", "d", "e", "l", " ", "1">>

(* XOR_model(arg) for arg an XOR_Slice; XOR_model(seed) passes XOR_Slice(seed) *)
XOR_model(arg, stay) ==
    LET seedTP == [arg EXCEPT !.index = 0]
        m0 == [lstTurningPoints |-> <<seedTP>>,
               lstTurningPointsDiff |-> << [mark |-> 0 - 1, changes |-> {}, loss |-> 0] >>,
               lst_TP_Final_Loss |-> << >>,
               crtSlice |-> XOR_Slice_invalid,
               Crt_ORIGINAL_Slice |-> XOR_Slice_invalid,
               maskParamLocks |-> 0,
               xor_array |-> XOR_array_model,
               indexOfCrtBaseTP_in_lstTurningPoints |-> 0,
               shared |-> {},
               modelName |-> Model_1,
               lastSavedFileInfo |-> None]
    IN  fillModelFromTP(m0, seedTP, stay)

(* XOR_array_model.clone: np.copy of every array *)
array_clone(arr) == arr

(* variant: the duplicate takes the Array Store object of the original     *)
clone_sharing_arrays(m, stay) ==
    LET baseTP == [slice_clone(m.lstTurningPoints[1]) EXCEPT !.epoch_size = 1]
        new_model == XOR_model(baseTP, stay)
    IN  setPos([new_model EXCEPT !.xor_array = m.xor_array,
                                 !.shared = {"xor_array"},
                                 !.lstTurningPoints = np_copy_row([i \in 1..Len(m.lstTurningPoints) |->
                                                          slice_clone(m.lstTurningPoints[i])]),
                                 !.lstTurningPointsDiff = m.lstTurningPointsDiff,
                                 !.lst_TP_Final_Loss = m.lst_TP_Final_Loss,
                                 !.maskParamLocks = m.maskParamLocks,
                                 !.lastSavedFileInfo = m.lastSavedFileInfo], 0)

(* XOR_model.clone; the field shared of a controller holds the objects it  *)
(* has in common with the controller it was cloned from: the Array Store   *)
(* of the duplicate is a new object                                        *)
clone(m, stay) ==
    LET baseTP == [slice_clone(m.lstTurningPoints[1]) EXCEPT !.epoch_size = 1]
        new_model == XOR_model(baseTP, stay)
    IN  setPos([new_model EXCEPT !.xor_array = array_clone(m.xor_array),
                                 !.shared = {},
                                 !.lstTurningPoints = np_copy_row([i \in 1..Len(m.lstTurningPoints) |->
                                                          slice_clone(m.lstTurningPoints[i])]),
                                 !.lstTurningPointsDiff = m.lstTurningPointsDiff,
                                 !.lst_TP_Final_Loss = m.lst_TP_Final_Loss,
                                 !.maskParamLocks = m.maskParamLocks,
                                 !.lastSavedFileInfo = m.lastSavedFileInfo], 0)

(* XOR_model.SaveToJson: the content of the written file *)
XOR_JSON_MODEL == "1.0"
XOR_JSON_SUPPORTED_MODELS == {XOR_JSON_MODEL}
SaveToJson(m) ==
    [version |-> XOR_JSON_MODEL,
     TP_list |-> [i \in 1..Len(m.lstTurningPoints) |-> toJson(m.lstTurningPoints[i])]]

(* the loop of LoadFromJson over the turning points read from the file;    *)
(* ok is FALSE once the assertion of fillModelFromTP fails                 *)
RECURSIVE load_fill(_, _, _, _)
load_fill(r, lstTP, i, stay) ==
    IF i > Len(lstTP) \/ ~r.ok THEN r
    ELSE LET tp == IF lstTP[i].index > 0 THEN [lstTP[i] EXCEPT !.index = @ - 1] ELSE lstTP[i]
         IN  IF count(r.m) >= tp.index /\ tp.epoch_size >= 1
             THEN assign([ok |-> TRUE, m |-> fillModelFromTP(r.m, tp, stay)],
                         LAMBDA filled : load_fill(filled, lstTP, i + 1, stay))
             ELSE [ok |-> FALSE, m |-> r.m]

(* XOR_model.LoadFromJson: [ok, m]; ok is FALSE when the load raises *)
LoadFromJson(file, stay) ==
    IF file.version \notin XOR_JSON_SUPPORTED_MODELS
    THEN [ok |-> FALSE, m |-> XOR_model(XOR_Slice(0 - 1), stay)]
    ELSE LET lstTP == [i \in 1..Len(file.TP_list) |-> fromJson(XOR_Slice(0 - 1), file.TP_list[i])]
         IN  assign([ok |-> TRUE, m |-> XOR_model(XOR_Slice(0 - 1), stay)],
                    LAMBDA newXORmodel : load_fill(newXORmodel, lstTP, 1, stay))

(* XOR_model.SaveToJson: the controller after a write that succeeded, for  *)
(* the base name of the file                                               *)
SaveToJson_saved(m, completeBaseName) ==
    [m EXCEPT !.modelName = completeBaseName, !.lastSavedFileInfo = completeBaseName]

(***************************************************************************)
(* Control panel (control_panel.py) and TPModel edits of the current slice *)
(***************************************************************************)
RECURSIVE pow2(_)
pow2(n) == IF n = 0 THEN 1 ELSE 2 * pow2(n - 1)
mask_bit(mask, i) == (mask \div pow2(i)) % 2 = 1

(* _ListLabelsLockBuddy.getColumnsMapLOCKED *)
getColumnsMapLOCKED(mask) ==
    {listColumnMap[i + 1] : i \in {k \in 0..(Len(listColumnMap) - 1) : mask_bit(mask, k)}}

(* _ListLabelsLockBuddy.AlterMask *)
AlterMask(mask, pow, bit) ==
    IF bit THEN (IF mask_bit(mask, pow) THEN mask ELSE mask + pow2(pow))
    ELSE (IF mask_bit(mask, pow) THEN mask - pow2(pow) ELSE mask)

(* a write into the arrays of the current slice (np.copyto, iloc[...] =,   *)
(* [:] =): tp is the current slice after the write; a row of the array     *)
(* store the arrays are views of takes the written values                  *)
write_in_place(m, tp) ==
    IF m.crtSlice.views = {} THEN [m EXCEPT !.crtSlice = tp]
    ELSE [m EXCEPT !.crtSlice = tp,
                   !.xor_array = np_copy_row([p \in 1..Len(m.xor_array) |->
                       IF p \in m.crtSlice.views
                       THEN [xHits |-> tp.xHits, w1 |-> tp.w1, z1 |-> tp.z1, a1 |-> tp.a1,
                             w2 |-> tp.w2, z2 |-> tp.z2, y_aka_a2 |-> tp.y_aka_a2,
                             lossPerX |-> tp.lossPerX, lossAvg |-> tp.lossAvg]
                       ELSE m.xor_array[p]])]

(* TPModel.setData of an integer column of the current slice *)
TPModel_setData(m, name_attr, value) ==
    IF name_attr \in {"minRange", "maxRange"}
    THEN LET tp == IF name_attr = "minRange" THEN [m.crtSlice EXCEPT !.minRange = value]
                   ELSE [m.crtSlice EXCEPT !.maxRange = value]
         IN  write_in_place(m,
                 [tp EXCEPT !.w1 = mat_clip(m.Crt_ORIGINAL_Slice.w1, tp.minRange * FX, tp.maxRange * FX),
                            !.w2 = mat_clip(m.Crt_ORIGINAL_Slice.w2, tp.minRange * FX, tp.maxRange * FX)])
    ELSE IF name_attr = "epoch_size" THEN [m EXCEPT !.crtSlice.epoch_size = value]
    ELSE m

(* TPParamsTab._rngSpinBox_valueChanged *)
rngSpinBox_valueChanged(m, i) ==
    IF m.crtSlice.seedTP = i THEN m
    ELSE assign(feedFromSeed(m.crtSlice, i, getColumnsMapLOCKED(m.maskParamLocks)), LAMBDA _tp :
         assign(IF _tp.index = 0 THEN setTPData(m, _tp) ELSE write_in_place(m, _tp), LAMBDA m1 :
             TPModel_setData(m1, "minRange", _tp.minRange)))

(* variant: the rows below share the rest evenly, the last row gets no more *)
X00_setData_even(xPercents, r, value) ==
    LET s_pred == np_sum(SubSeq(xPercents, 1, r))
        s_rest == 100 - s_pred - value
        s_rep == s_rest \div (3 - r)
    IN  [i \in 1..4 |->
            IF i = r + 1 THEN value
            ELSE IF i > r + 1 THEN s_rep
            ELSE xPercents[i]]

(* X00_Model.setData of the '%' column, row r in 0..2 *)
X00_setData(xPercents, r, value) ==
    LET s_pred == np_sum(SubSeq(xPercents, 1, r))
        s_rest == 100 - s_pred - value
        s_rep == s_rest \div (3 - r)
    IN  [i \in 1..4 |->
            IF i = r + 1 THEN value
            ELSE IF i = 4 THEN s_rep + (s_rest - s_rep * (3 - r))
            ELSE IF i > r + 1 THEN s_rep
            ELSE xPercents[i]]

(* IntDelegate.createEditor: the spin box range of the '%' column *)
IntDelegate_range(xPercents, r) == 0..(100 - np_sum(SubSeq(xPercents, 1, r)))

(***************************************************************************)
(* State                                                                   *)
(***************************************************************************)
(***************************************************************************)
(* _ListLabelsLockBuddy (control_panel.py): the labels with a lock of the  *)
(* parameters tab, their columns and the lock mask                         *)
(***************************************************************************)
RECURSIVE bit_and(_, _)
bit_and(a, b) == IF a = 0 \/ b = 0 THEN 0 ELSE (a % 2) * (b % 2) + 2 * bit_and(a \div 2, b \div 2)
bit_or(a, b) == a + b - bit_and(a, b)

(* LabelLockBuddy(text, objBuddy, bLock = bLock): the buddy widget is      *)
(* enabled, whatever bLock is                                              *)
LabelLockBuddy(bLock) == [_locked |-> bLock, buddyEnabled |-> TRUE]

(* _ListLabelsLockBuddy(parent) *)
ListLabelsLockBuddy == [_mask |-> 0, _list |-> << >>, _listColumnMap |-> << >>]

(* the truth value of `_object.isLocked`: isLocked is a method, and the    *)
(* attribute is the bound method, not the result of a call                 *)
isLocked_attribute(_object) == TRUE

ListLabels_setMask(self, mask) ==
    [self EXCEPT !._mask = mask,
                 !._list = np_copy_row([i \in 1..Len(self._list) |->
                               [_locked |-> mask_bit(mask, i - 1),
                                buddyEnabled |-> ~mask_bit(mask, i - 1)]])]

ListLabels_AlterMask(self, pow, bit) ==
    [self EXCEPT !._mask = IF bit THEN bit_or(@, pow2(pow))
                           ELSE bit_and(@, pow2(Len(self._list)) - 1 - pow2(pow))]

ListLabels_append(self, _object, ixColumnMap) ==
    LET pow == Len(self._list)
    IN  [self EXCEPT !._list = Append(@, _object),
                     !._listColumnMap = Append(@, ixColumnMap),
                     !._mask = IF isLocked_attribute(_object) THEN @ + pow2(pow) ELSE @]

ListLabels_getColumnsMapLOCKED(self) ==
    {self._listColumnMap[i + 1] : i \in {k \in 0..(Len(self._list) - 1) : mask_bit(self._mask, k)}}

(* LabelLock.mouseReleaseEvent of the label pow: setLock(not _locked)      *)
(* emits sigLockChanged, whose slots enable or disable the buddy and alter *)
(* the mask                                                                *)
mouseReleaseEvent(self, pow) ==
    LET bLock == ~self._list[pow + 1]._locked
    IN  ListLabels_AlterMask([self EXCEPT !._list[pow + 1] =
                                 [_locked |-> bLock, buddyEnabled |-> ~bLock]], pow, bLock)

VARIABLES mXORmodel, otherTab, fillFrame, tabModels, lstLLB, StayOnPosOnFillModel, jsonFile, lastOp, nTrims

vars == <<mXORmodel, otherTab, fillFrame, tabModels, lstLLB, StayOnPosOnFillModel, jsonFile, lastOp, nTrims>>

NoFile == << >>
NoTab == << >>
NoFrame == << >>

(* the controller of the other tab after the controller on screen became   *)
(* m1: an object the two controllers share is one object                   *)
seenByOtherTab(other, m1) ==
    IF other = NoTab THEN other
    ELSE IF "xor_array" \in m1.shared THEN [other EXCEPT !.xor_array = m1.xor_array]
    ELSE other
Op(name, ix) == [name |-> name, ix |-> ix]

(***************************************************************************)
(* TabDragEdit (tabs.py): the texts of the tab bar, the '+' tab last, and  *)
(* the generator of the numbers of the default names                       *)
(***************************************************************************)
PLUS_UNICODE == <<"+">>
Model_ == <<"M", "o", "d", "e", "l", " ">>
Digits == <<"0", "1", "2", "3", "4", "5", "6", "7", "8", "9">>

(* str(n) of a natural number *)
RECURSIVE str(_)
str(n) == IF n < 10 THEN <<Digits[n + 1]>> ELSE str(n \div 10) \o <<Digits[(n % 10) + 1]>>

(* str.strip() *)
RECURSIVE strip(_)
strip(s) ==
    IF Len(s) = 0 THEN s
    ELSE IF Head(s) = " " THEN strip(Tail(s))
    ELSE IF s[Len(s)] = " " THEN strip(SubSeq(s, 1, Len(s) - 1))
    ELSE s

(* str.startswith(prefix) *)
startswith(s, prefix) == Len(prefix) <= Len(s) /\ SubSeq(s, 1, Len(prefix)) = prefix

(* _name + f'({i + 1})' *)
try_this(_name, i) == _name \o <<"(">> \o str(i + 1) \o <<")">>

impossible == <<"i", "m", "p", "o", "s", "s", "i", "b", "l", "e">>

(* variant: the loop runs over the tabs that match the prefix only *)
getNextName_matched_only(self, _name) ==
    IF _name = << >>
    THEN [ret |-> Model_ \o str(self.id_generator), self |-> [self EXCEPT !.id_generator = @ + 1]]
    ELSE LET lstPrefixMatched == SelectSeq(self.tabText, LAMBDA t : startswith(t, _name))
             free == {i \in 0..(Len(lstPrefixMatched) - 2) :
                          \A j \in 1..Len(lstPrefixMatched) : lstPrefixMatched[j] # try_this(_name, i)}
             first == CHOOSE i \in free : \A j \in free : i <= j
         IN  [ret |-> IF Len(lstPrefixMatched) = 0 THEN _name
                      ELSE IF free = {} THEN impossible ELSE try_this(_name, first),
              self |-> self]

(* TabDragEdit.getNextName: the name returned and the widget afterwards *)
getNextName(self, _name) ==
    IF _name = << >>
    THEN [ret |-> Model_ \o str(self.id_generator), self |-> [self EXCEPT !.id_generator = @ + 1]]
    ELSE LET lstPrefixMatched == SelectSeq(self.tabText, LAMBDA t : startswith(t, _name))
             free == {i \in 0..(Len(self.tabText) - 1) :
                          \A j \in 1..Len(lstPrefixMatched) : lstPrefixMatched[j] # try_this(_name, i)}
             first == CHOOSE i \in free : \A j \in free : i <= j
         IN  [ret |-> IF Len(lstPrefixMatched) = 0 THEN _name
                      ELSE IF free = {} THEN impossible ELSE try_this(_name, first),
              self |-> self]

(* tab_widget.insertTab(ix, QWidget(), name.strip()), ix from 0 *)
insertTab(self, ix, name) ==
    [self EXCEPT !.tabText = SubSeq(@, 1, ix) \o <<strip(name)>> \o SubSeq(@, ix + 1, Len(@))]

(* TabDragEdit(crtModel = a model of that name): its tab, then the '+' tab *)
TabDragEdit(modelName) ==
    LET named == getNextName([tabText |-> << >>, id_generator |-> 1, currentIndex |-> 0 - 1],
                             << >>).self
        tabs == insertTab(insertTab(named, 0, modelName), 1, PLUS_UNICODE \o <<" ">>)
    IN  [tabs EXCEPT !.currentIndex = 0]

(* the new current index of removeTab when tab ix is the current one: the  *)
(* first of ix + 1, ix - 1, ix + 2, ix - 2 that is a tab other than '+'    *)
new_crt(self, ix) ==
    LET ok(dx) == /\ 0 <= ix + dx
                  /\ ix + dx <= Len(self.tabText) - 1
                  /\ self.tabText[ix + dx + 1] # PLUS_UNICODE
    IN  IF ok(1) THEN ix + 1 ELSE IF ok(0 - 1) THEN ix - 1
        ELSE IF ok(2) THEN ix + 2 ELSE IF ok(0 - 2) THEN ix - 2 ELSE ix

(* variant: the index 0 is an index like the others *)
removeTab_at_index(self, ix0, clickedButton, saved) ==
    IF Len(self.tabText) <= 2 \/ self.tabText[ix0 + 1] = PLUS_UNICODE THEN self
    ELSE IF clickedButton = "btnCancel" \/ (clickedButton = "btnSave" /\ ~saved) THEN self
    ELSE LET ix == ix0
             crt == IF ix = self.currentIndex THEN new_crt(self, ix) ELSE self.currentIndex
         IN  [self EXCEPT !.tabText = SubSeq(@, 1, ix) \o SubSeq(@, ix + 2, Len(@)),
                          !.currentIndex = IF ix < crt THEN crt - 1 ELSE crt]

(* TabDragEdit.removeTab(ix), ix from 0: clickedButton is the answer to the *)
(* message box and saved what the parent's saveModel returns; QTabWidget    *)
(* keeps the current tab current when a tab before it is removed            *)
removeTab(self, ix0, clickedButton, saved) ==
    IF Len(self.tabText) <= 2 \/ self.tabText[ix0 + 1] = PLUS_UNICODE THEN self
    ELSE IF clickedButton = "btnCancel" \/ (clickedButton = "btnSave" /\ ~saved) THEN self
    ELSE LET ix == IF ix0 = 0 THEN self.currentIndex ELSE ix0
             crt == IF ix = self.currentIndex THEN new_crt(self, ix) ELSE self.currentIndex
         IN  [self EXCEPT !.tabText = SubSeq(@, 1, ix) \o SubSeq(@, ix + 2, Len(@)),
                          !.currentIndex = IF ix < crt THEN crt - 1 ELSE crt]

Init ==
    /\ StayOnPosOnFillModel \in BOOLEAN
    /\ \E seed \in Seeds : mXORmodel = XOR_model(XOR_Slice(seed), StayOnPosOnFillModel)
    /\ otherTab = NoTab
    /\ fillFrame = NoFrame
    /\ tabModels = TabDragEdit(Model_1)
    /\ lstLLB = ListLabelsLockBuddy
    /\ jsonFile = NoFile
    /\ lastOp = Op("XOR_model", 0)
    /\ nTrims = 0

(* the slider moves the current position *)
SetPos(ix) ==
    /\ ix \in 0..(count(mXORmodel) - 1)
    /\ mXORmodel' = setPos(mXORmodel, ix)
    /\ lastOp' = Op("setPos", ix)
    /\ UNCHANGED <<StayOnPosOnFillModel, jsonFile, nTrims>>
    /\ otherTab' = seenByOtherTab(otherTab, mXORmodel')
    /\ UNCHANGED <<fillFrame, tabModels>>
    /\ UNCHANGED lstLLB

(* the length of the timeline after a fill from the current slice *)
countAfterFill(m) ==
    LET tp == m.crtSlice
    IN  (IF \E i \in 1..Len(m.lstTurningPoints) : m.lstTurningPoints[i].index = tp.index
         THEN tp.index ELSE tp.index + 1) + tp.epoch_size

(* ControlPanel.FillFromCrtTP *)
FillFromCrtTP ==
    /\ countAfterFill(mXORmodel) <= MaxCount
    /\ mXORmodel' = fillModelFromTP(mXORmodel, mXORmodel.crtSlice, StayOnPosOnFillModel)
    /\ Len(mXORmodel'.lstTurningPoints) <= MaxTP
    /\ lastOp' = [ name |-> "fillModelFromTP", ix |-> getPos(mXORmodel),
                   sigModelChanged |-> fillModelFromTP_ix(Last(mXORmodel'.lstTurningPoints),
                                                          mXORmodel', StayOnPosOnFillModel) ]
    /\ UNCHANGED <<StayOnPosOnFillModel, jsonFile, nTrims>>
    /\ otherTab' = seenByOtherTab(otherTab, mXORmodel')
    /\ UNCHANGED <<fillFrame, tabModels>>
    /\ UNCHANGED lstLLB

(* slider menu "Before Delete"; the number of trims of a run is bounded *)
DeleteBefore ==
    /\ nTrims < MaxTrims
    /\ mXORmodel' = deleteBefore(mXORmodel, getPos(mXORmodel))
    /\ lastOp' = Op("deleteBefore", getPos(mXORmodel))
    /\ nTrims' = nTrims + 1
    /\ UNCHANGED <<StayOnPosOnFillModel, jsonFile>>
    /\ otherTab' = seenByOtherTab(otherTab, mXORmodel')
    /\ UNCHANGED <<fillFrame, tabModels>>
    /\ UNCHANGED lstLLB

(* slider menu "Delete After" *)
DeleteAfterPos ==
    /\ mXORmodel' = deleteAfterPos(mXORmodel, getPos(mXORmodel))
    /\ lastOp' = Op("deleteAfterPos", getPos(mXORmodel))
    /\ UNCHANGED <<StayOnPosOnFillModel, jsonFile, nTrims>>
    /\ otherTab' = seenByOtherTab(otherTab, mXORmodel')
    /\ UNCHANGED <<fillFrame, tabModels>>
    /\ UNCHANGED lstLLB

(* Ctrl + D: the duplicate becomes the model on screen *)
Clone ==
    /\ mXORmodel' = clone(mXORmodel, StayOnPosOnFillModel)
    /\ lastOp' = Op("clone", 0)
    /\ UNCHANGED <<StayOnPosOnFillModel, jsonFile, nTrims>>
    /\ otherTab' = seenByOtherTab(otherTab, mXORmodel')
    /\ UNCHANGED <<fillFrame, tabModels>>
    /\ UNCHANGED lstLLB

(* the epoch size combo box commits a value; the lock of a column disables *)
(* the widget of the column                                               *)
EditEpochSize(e) ==
    /\ "epoch_size" \notin getColumnsMapLOCKED(mXORmodel.maskParamLocks)
    /\ e # mXORmodel.crtSlice.epoch_size
    /\ mXORmodel' = TPModel_setData(mXORmodel, "epoch_size", e)
    /\ lastOp' = Op("setData", e)
    /\ UNCHANGED <<StayOnPosOnFillModel, jsonFile, nTrims>>
    /\ otherTab' = seenByOtherTab(otherTab, mXORmodel')
    /\ UNCHANGED <<fillFrame, tabModels>>
    /\ UNCHANGED lstLLB

(* what a call of feedFromSeed reads and writes of a slice *)
feedFields(tp) ==
    [ index |-> tp.index, batch_size |-> tp.batch_size, epoch_size |-> tp.epoch_size,
      cyclesPerOneStepFwdOfEpoch |-> tp.cyclesPerOneStepFwdOfEpoch,
      learning_rate |-> tp.learning_rate, minRange |-> tp.minRange, maxRange |-> tp.maxRange,
      activation1 |-> tp.activation1, activation2 |-> tp.activation2, loss |-> tp.loss,
      xPercents |-> tp.xPercents, w1 |-> np_copy(tp.w1), w1_lock |-> np_copy(tp.w1_lock),
      w2 |-> np_copy(tp.w2), w2_lock |-> np_copy(tp.w2_lock) ]

(* a call self.feedFromSeed(seed, setColumnsLocked): the slice before the   *)
(* call, the locked columns, the slice after the call, and the slice the   *)
(* same call gives with setColumnsLocked = set()                           *)
FeedCall(self, seed, setColumnsLocked) ==
    assign(feedFromSeed(self, seed, setColumnsLocked), LAMBDA result :
    assign(feedFromSeed(self, seed, {}), LAMBDA unlocked :
        [ seed |-> seed, locked |-> setColumnsLocked, prior |-> feedFields(self),
          result |-> feedFields(result), unlocked |-> feedFields(unlocked) ]))

(* the slices a second call with the same arguments is made on: a stored    *)
(* turning point, and the fresh slice of the constructor, which calls      *)
(* feedFromSeed with set()                                                 *)
otherSlices(m, seed, setColumnsLocked) ==
    {m.lstTurningPoints[i] : i \in 1..Len(m.lstTurningPoints)}
    \cup (IF setColumnsLocked = {} THEN {XOR_Slice_init(seed)} ELSE {})

(* the rng seed spin box changes; the step keeps the call it made and the   *)
(* same call on another slice                                              *)
RngSeedChanged(seed) ==
    /\ seed # mXORmodel.crtSlice.seedTP
    /\ \E changed \in {rngSpinBox_valueChanged(mXORmodel, seed)} : mXORmodel' = changed
    /\ \E locked \in {getColumnsMapLOCKED(mXORmodel.maskParamLocks)} :
       \E call \in {FeedCall(mXORmodel.crtSlice, seed, locked)} :
       \E other \in otherSlices(mXORmodel, seed, locked) :
       \E twin \in {FeedCall(other, seed, locked)} :
          lastOp' = [ name |-> "rngSpinBox_valueChanged", ix |-> seed, call |-> call, twin |-> twin ]
    /\ UNCHANGED <<StayOnPosOnFillModel, jsonFile, nTrims>>
    /\ otherTab' = seenByOtherTab(otherTab, mXORmodel')
    /\ UNCHANGED <<fillFrame, tabModels>>
    /\ UNCHANGED lstLLB

Next ==
    \/ \E ix \in 0..(MaxCount - 1) : SetPos(ix)
    \/ FillFromCrtTP
    \/ DeleteBefore
    \/ DeleteAfterPos
    \/ Clone
    \/ \E e \in EpochEdits : EditEpochSize(e)

Spec == Init /\ [][Next]_vars

(* helpers of the properties *)
tpIndices(m) == [i \in 1..Len(m.lstTurningPoints) |-> m.lstTurningPoints[i].index]
sumEpochSize(m) == np_sum([i \in 1..Len(m.lstTurningPoints) |-> m.lstTurningPoints[i].epoch_size])

(***************************************************************************)
(* Properties of the timeline controller                                   *)
(***************************************************************************)
configOf(tp) ==
    [seedTP |-> tp.seedTP, batch_size |-> tp.batch_size, epoch_size |-> tp.epoch_size,
     cyclesPerOneStepFwdOfEpoch |-> tp.cyclesPerOneStepFwdOfEpoch,
     learning_rate |-> tp.learning_rate, minRange |-> tp.minRange, maxRange |-> tp.maxRange,
     activation1 |-> tp.activation1, activation2 |-> tp.activation2, loss |-> tp.loss,
     w1_lock |-> tp.w1_lock, w2_lock |-> tp.w2_lock]
stepArrays(a) ==
    [w1 |-> a.w1, z1 |-> a.z1, a1 |-> a.a1, w2 |-> a.w2, z2 |-> a.z2,
     y_aka_a2 |-> a.y_aka_a2, lossPerX |-> a.lossPerX, lossAvg |-> a.lossAvg]
(* the list position (from 1) of the last turning point with index <= ix *)
effectiveTP(m, ix) ==
    CHOOSE j \in 1..Len(m.lstTurningPoints) :
        /\ m.lstTurningPoints[j].index <= ix
        /\ \A k \in (j + 1)..Len(m.lstTurningPoints) : m.lstTurningPoints[k].index > ix

C2_TurningPointsOrdered ==
    LET lst == mXORmodel.lstTurningPoints
    IN  /\ Len(lst) >= 1
        /\ lst[1].index = 0
        /\ \A i \in 1..(Len(lst) - 1) : lst[i].index < lst[i + 1].index

C2_Witness ==
    /\ lastOp.name = "deleteBefore" /\ lastOp.ix >= 1
    /\ Len(mXORmodel.lstTurningPoints) >= 2
    /\ mXORmodel.lstTurningPoints[2].index >= 1

(* C3: after setPos(ix) with 0 <= ix < count() the current slice carries   *)
(* the configuration of the last turning point with index <= ix,           *)
(* indexOfCrtBaseTP_in_lstTurningPoints is that turning point's list       *)
(* position, the slice index is ix and its arrays are the ones stored at   *)
(* position ix.                                                            *)
C3_SetPosShowsEffectiveTP ==
    (lastOp.name = "setPos" /\ 0 <= lastOp.ix /\ lastOp.ix < count(mXORmodel)) =>
        LET ix == lastOp.ix
            j == effectiveTP(mXORmodel, ix)
        IN  /\ configOf(mXORmodel.crtSlice) = configOf(mXORmodel.lstTurningPoints[j])
            /\ mXORmodel.indexOfCrtBaseTP_in_lstTurningPoints = j - 1
            /\ mXORmodel.crtSlice.index = ix
            /\ stepArrays(mXORmodel.crtSlice) = stepArrays(mXORmodel.xor_array[ix + 1])
            /\ mXORmodel.crtSlice.xHits = mXORmodel.xor_array[ix + 1].xHits

C3_Witness ==
    /\ lastOp.name = "setPos"
    /\ Len(mXORmodel.lstTurningPoints) >= 2
    /\ mXORmodel.indexOfCrtBaseTP_in_lstTurningPoints = 1
    /\ mXORmodel.crtSlice.index > mXORmodel.lstTurningPoints[2].index
    /\ mXORmodel.crtSlice.w2 # mXORmodel.lstTurningPoints[2].w2

(* C4: deleteBefore(ix) shifts the timeline by ix: count() drops by ix,    *)
(* the weights, pre/post-activations and losses at each new position p are *)
(* those of old position p + ix, each retained turning point with old      *)
(* index k > ix gets index k - ix, and the turning point effective at ix   *)
(* becomes the first one, with index 0 and epoch_size the next turning     *)
(* point's new index (count() when it is the only one).                    *)
C4_DeleteBeforeShift ==
    (lastOp'.name = "deleteBefore") =>
        LET ix == lastOp'.ix
            old == mXORmodel
            new == mXORmodel'
            j == effectiveTP(old, ix)
            n == Len(old.lstTurningPoints)
        IN  /\ count(new) = count(old) - ix
            /\ \A p \in 0..(count(new) - 1) :
                   stepArrays(new.xor_array[p + 1]) = stepArrays(old.xor_array[p + ix + 1])
            /\ new.crtSlice.index = 0
            /\ new.crtSlice.w1 = old.xor_array[ix + 1].w1
            /\ new.crtSlice.w2 = old.xor_array[ix + 1].w2
            /\ Len(new.lstTurningPoints) = n - j + 1
            /\ \A i \in (j + 1)..n :
                   new.lstTurningPoints[i - j + 1] =
                       [old.lstTurningPoints[i] EXCEPT !.index = @ - ix]
            /\ new.lstTurningPoints[1] =
                   [old.lstTurningPoints[j] EXCEPT
                       !.index = 0,
                       !.epoch_size = IF j = n THEN count(new)
                                      ELSE old.lstTurningPoints[j + 1].index - ix]

C4_DeleteBeforeShifts == [][C4_DeleteBeforeShift]_vars

C4_Witness ==
    /\ lastOp.name = "deleteBefore" /\ lastOp.ix >= 1
    /\ Len(mXORmodel.lstTurningPoints) >= 2
    /\ mXORmodel.crtSlice.w1 = mXORmodel.xor_array[1].w1
    /\ mXORmodel.xor_array[1].w1 # mXORmodel.lstTurningPoints[1].w1

(***************************************************************************)
(* A training session that only extends the timeline: the epoch size is    *)
(* typed, the position is a turning point (combo box) or the last step,    *)
(* the model is filled from there, and "Delete After" is used on the       *)
(* position of a turning point                                             *)
(***************************************************************************)
ScenarioEditEpochSize(e) ==
    /\ "epoch_size" \notin getColumnsMapLOCKED(mXORmodel.maskParamLocks)
    /\ e # mXORmodel.crtSlice.epoch_size
    /\ mXORmodel' = TPModel_setData(mXORmodel, "epoch_size", e)
    /\ lastOp' = Op("setData", e)
    /\ UNCHANGED <<StayOnPosOnFillModel, jsonFile, nTrims>>
    /\ otherTab' = seenByOtherTab(otherTab, mXORmodel')
    /\ UNCHANGED <<fillFrame, tabModels>>
    /\ UNCHANGED lstLLB

(* ControlPanel._cboTP_currentIndexChanged: the position of a turning point *)
ScenarioSelectTP(k) ==
    /\ k \in 1..Len(mXORmodel.lstTurningPoints)
    /\ mXORmodel' = setPos(mXORmodel, mXORmodel.lstTurningPoints[k].index)
    /\ lastOp' = Op("setPos", mXORmodel.lstTurningPoints[k].index)
    /\ UNCHANGED <<StayOnPosOnFillModel, jsonFile, nTrims>>
    /\ otherTab' = seenByOtherTab(otherTab, mXORmodel')
    /\ UNCHANGED <<fillFrame, tabModels>>
    /\ UNCHANGED lstLLB

(* the slider dragged to its end *)
ScenarioSetPosEnd ==
    /\ mXORmodel' = setPos(mXORmodel, count(mXORmodel) - 1)
    /\ lastOp' = Op("setPos", count(mXORmodel) - 1)
    /\ UNCHANGED <<StayOnPosOnFillModel, jsonFile, nTrims>>
    /\ otherTab' = seenByOtherTab(otherTab, mXORmodel')
    /\ UNCHANGED <<fillFrame, tabModels>>
    /\ UNCHANGED lstLLB

ScenarioFill ==
    /\ countAfterFill(mXORmodel) <= MaxScenarioCount
    /\ mXORmodel' = fillModelFromTP(mXORmodel, mXORmodel.crtSlice, StayOnPosOnFillModel)
    /\ Len(mXORmodel'.lstTurningPoints) <= MaxTP
    /\ lastOp' = [ name |-> "fillModelFromTP", ix |-> getPos(mXORmodel),
                   sigModelChanged |-> fillModelFromTP_ix(Last(mXORmodel'.lstTurningPoints),
                                                          mXORmodel', StayOnPosOnFillModel) ]
    /\ UNCHANGED <<StayOnPosOnFillModel, jsonFile, nTrims>>
    /\ otherTab' = seenByOtherTab(otherTab, mXORmodel')
    /\ UNCHANGED <<fillFrame, tabModels>>
    /\ UNCHANGED lstLLB

(* "Delete After"; the step remembers the timeline it was applied to *)
ScenarioDeleteAfterPos ==
    /\ \E k \in 1..Len(mXORmodel.lstTurningPoints) :
           mXORmodel.lstTurningPoints[k].index = getPos(mXORmodel)
    /\ mXORmodel' = deleteAfterPos(mXORmodel, getPos(mXORmodel))
    /\ lastOp' = [name |-> "deleteAfterPos", ix |-> getPos(mXORmodel),
                  oldIndices |-> tpIndices(mXORmodel), oldCount |-> count(mXORmodel)]
    /\ UNCHANGED <<StayOnPosOnFillModel, jsonFile, nTrims>>
    /\ otherTab' = seenByOtherTab(otherTab, mXORmodel')
    /\ UNCHANGED <<fillFrame, tabModels>>
    /\ UNCHANGED lstLLB

NextScenario ==
    \/ \E e \in ScenarioEpochs : ScenarioEditEpochSize(e)
    \/ \E k \in 1..MaxTP : ScenarioSelectTP(k)
    \/ ScenarioSetPosEnd
    \/ ScenarioFill
    \/ ScenarioDeleteAfterPos

SpecScenario == Init /\ [][NextScenario]_vars

(* the timeline of the scenario: turning points at 0, 5 and 12, 20 steps *)
scenario_applied(op) ==
    /\ op.name = "deleteAfterPos" /\ op.ix = 12
    /\ op.oldIndices = <<0, 5, 12>> /\ op.oldCount = 20

(* C5 as stated: with turning points at [0, 5, 12] and length 20,          *)
(* deleteAfterPos(12) leaves length 13 and a last turning point with       *)
(* epoch_size 1.                                                           *)
C5_DeleteAfter12Keeps13 ==
    scenario_applied(lastOp) =>
        (count(mXORmodel) = 13 /\ Last(mXORmodel.lstTurningPoints).epoch_size = 1)

(* C5 amended: with turning points at [0, 5, 12] and length 20,            *)
(* deleteAfterPos(12) drops the turning point at 12 with everything from   *)
(* position 12 on: the length becomes 12, the turning points are [0, 5]    *)
(* and the last one (index 5) gets epoch_size 7.                           *)
C5_DeleteAfter12DropsTP ==
    scenario_applied(lastOp) =>
        /\ count(mXORmodel) = 12
        /\ tpIndices(mXORmodel) = <<0, 5>>
        /\ Last(mXORmodel.lstTurningPoints).epoch_size = 7
        /\ getPos(mXORmodel) = 11

C5_Witness ==
    /\ scenario_applied(lastOp)
    /\ count(mXORmodel) = 12
    /\ Len(mXORmodel.lstTurningPoints) = 2

(***************************************************************************)
(* Saving the model on screen and opening the saved file                   *)
(***************************************************************************)
(* MainWindow.saveModel of a model whose suggested file name the user       *)
(* accepts, the write succeeding                                           *)
SaveModel ==
    /\ jsonFile' = SaveToJson(mXORmodel)
    /\ mXORmodel' = SaveToJson_saved(mXORmodel, mXORmodel.modelName)
    /\ lastOp' = Op("SaveToJson", Len(mXORmodel.lstTurningPoints))
    /\ UNCHANGED <<otherTab, StayOnPosOnFillModel, nTrims>>
    /\ UNCHANGED <<fillFrame, tabModels>>
    /\ UNCHANGED lstLLB

(* MainWindow.loadModel: the loaded model becomes the model on screen; a   *)
(* load that raises shows a message and changes nothing                    *)
LoadModel ==
    /\ jsonFile # NoFile
    /\ \E r \in {LoadFromJson(jsonFile, StayOnPosOnFillModel)} :
           /\ mXORmodel' = IF r.ok THEN r.m ELSE mXORmodel
           /\ lastOp' = Op(IF r.ok THEN "LoadFromJson" ELSE "LoadFromJson raised", 0)
    /\ UNCHANGED <<StayOnPosOnFillModel, jsonFile, nTrims>>
    /\ otherTab' = seenByOtherTab(otherTab, mXORmodel')
    /\ UNCHANGED <<fillFrame, tabModels>>
    /\ UNCHANGED lstLLB

(* the timeline is built and trimmed, then saved and opened again *)
NextJson ==
    \/ (jsonFile = NoFile /\ \E ix \in 0..(MaxCount - 1) : SetPos(ix))
    \/ (jsonFile = NoFile /\ FillFromCrtTP)
    \/ (jsonFile = NoFile /\ DeleteBefore)
    \/ (jsonFile = NoFile /\ DeleteAfterPos)
    \/ SaveModel
    \/ LoadModel

SpecJson == Init /\ [][NextJson]_vars

sameTurningPoints(m1, m2) ==
    /\ Len(m1.lstTurningPoints) = Len(m2.lstTurningPoints)
    /\ \A i \in 1..Len(m1.lstTurningPoints) :
           i <= Len(m2.lstTurningPoints) =>
               toJson(m1.lstTurningPoints[i]) = toJson(m2.lstTurningPoints[i])
sameArrayStore(m1, m2) ==
    /\ count(m1) = count(m2)
    /\ \A p \in 1..count(m1) :
           p <= count(m2) =>
               /\ stepArrays(m1.xor_array[p]) = stepArrays(m2.xor_array[p])
               /\ m1.xor_array[p].xHits = m2.xor_array[p].xHits

(* C6: SaveToJson followed by LoadFromJson of the written file gives a     *)
(* controller with the same turning-point fields and the same Array Store  *)
(* contents at every position.                                             *)
C6_SaveLoadStep ==
    (lastOp.name = "SaveToJson" /\ lastOp'.name \in {"LoadFromJson", "LoadFromJson raised"}) =>
        /\ lastOp'.name = "LoadFromJson"
        /\ sameTurningPoints(mXORmodel, mXORmodel')
        /\ sameArrayStore(mXORmodel, mXORmodel')

C6_SaveLoadRoundTrip == [][C6_SaveLoadStep]_vars

(***************************************************************************)
(* Regenerating the current slice from a seed under column locks and       *)
(* weight locks                                                            *)
(***************************************************************************)
(* the weight cells whose lock is used *)
LockCells == {<<"w1", 1, 1>>, <<"w2", 3, 1>>}

(* the number of locks set: locked columns and locked weight cells *)
locksSet(m) ==
    Cardinality(getColumnsMapLOCKED(m.maskParamLocks))
    + np_sum([r \in 1..3 |-> np_sum(m.crtSlice.w1_lock[r])])
    + np_sum([r \in 1..3 |-> np_sum(m.crtSlice.w2_lock[r])])

(* LabelLock.mouseReleaseEvent of column pow: the lock flips, the mask is   *)
(* altered and written back to the model; the session sets locks and       *)
(* leaves them set                                                         *)
ToggleLock(pow) ==
    /\ pow \in 0..(Len(listColumnMap) - 1)
    /\ ~mask_bit(mXORmodel.maskParamLocks, pow)
    /\ locksSet(mXORmodel) < MaxLocked
    /\ \E msk \in {AlterMask(mXORmodel.maskParamLocks, pow, ~mask_bit(mXORmodel.maskParamLocks, pow))} :
          mXORmodel' = [mXORmodel EXCEPT !.maskParamLocks = msk]
    /\ lastOp' = Op("AlterMask", pow)
    /\ UNCHANGED <<StayOnPosOnFillModel, jsonFile, nTrims>>
    /\ otherTab' = seenByOtherTab(otherTab, mXORmodel')
    /\ UNCHANGED <<fillFrame, tabModels>>
    /\ UNCHANGED lstLLB

(* FloatDelegate.setModelData of a weight cell whose lock button was        *)
(* pressed: the lock is stored in the mask of the current slice, the text  *)
(* of the cell is stored back as its value                                 *)
WeightLockFlipped(cell) ==
    /\ cell \in LockCells
    /\ (IF cell[1] = "w1" THEN mXORmodel.crtSlice.w1_lock ELSE mXORmodel.crtSlice.w2_lock)[cell[2]][cell[3]] = 0
    /\ locksSet(mXORmodel) < MaxLocked
    /\ mXORmodel' =
          IF cell[1] = "w1"
          THEN [mXORmodel EXCEPT !.crtSlice.w1_lock[cell[2]][cell[3]] = 1]
          ELSE [mXORmodel EXCEPT !.crtSlice.w2_lock[cell[2]][cell[3]] = 1]
    /\ lastOp' = Op("setModelData", cell[2])
    /\ UNCHANGED <<StayOnPosOnFillModel, jsonFile, nTrims>>
    /\ otherTab' = seenByOtherTab(otherTab, mXORmodel')
    /\ UNCHANGED <<fillFrame, tabModels>>
    /\ UNCHANGED lstLLB

NextFeed ==
    \/ \E pow \in 0..(Len(listColumnMap) - 1) : ToggleLock(pow)
    \/ \E cell \in LockCells : WeightLockFlipped(cell)
    \/ \E seed \in Seeds : RngSeedChanged(seed)
    \/ \E ix \in 0..(MaxCount - 1) : SetPos(ix)

(* the setting "stay on position on fill" at its default *)
InitFeed == Init /\ StayOnPosOnFillModel = TRUE

SpecFeed == InitFeed /\ [][NextFeed]_vars

(* the columns feedFromSeed draws; the clip range is one lockable column,   *)
(* listed as minRange, that holds the clip minimum and the clip maximum    *)
FeedColumns ==
    {"batch_size", "epoch_size", "cyclesPerOneStepFwdOfEpoch", "learning_rate",
     "minRange", "maxRange", "activation1", "activation2", "loss"}
lockedFields(setColumnsLocked) ==
    setColumnsLocked \cup (IF "minRange" \in setColumnsLocked THEN {"maxRange"} ELSE {})

fedNow == lastOp.name = "rngSpinBox_valueChanged"
WeightCells == {<<"w1", r, c>> : r \in 1..3, c \in 1..2} \cup {<<"w2", r, 1>> : r \in 1..3}
weightAt(tp, cell) == IF cell[1] = "w1" THEN tp.w1[cell[2]][cell[3]] ELSE tp.w2[cell[2]][cell[3]]
lockAt(tp, cell) == IF cell[1] = "w1" THEN tp.w1_lock[cell[2]][cell[3]] ELSE tp.w2_lock[cell[2]][cell[3]]

sameFeedResult(a, b) ==
    /\ \A f \in FeedColumns : a[f] = b[f]
    /\ (a.index = 0 /\ b.index = 0) =>
          (a.xPercents = b.xPercents /\ a.w1 = b.w1 /\ a.w2 = b.w2)

(* the two slices hold the same values under the locks *)
sameLockedValues(a, b, setColumnsLocked) ==
    /\ \A f \in lockedFields(setColumnsLocked) : a[f] = b[f]
    /\ (a.index = 0 /\ b.index = 0) =>
          \A cell \in WeightCells :
             /\ lockAt(a, cell) = lockAt(b, cell)
             /\ lockAt(a, cell) = 1 => weightAt(a, cell) = weightAt(b, cell)

(* C7 as stated: two invocations of feedFromSeed with the same seed and the *)
(* same lock set yield identical batch_size, epoch_size, cycles,           *)
(* learning_rate, clip range, activations and loss, and for slices with    *)
(* index 0 also identical percentages and weights; the lock set is the set *)
(* of locked columns with the two weight lock masks.                       *)
C7_SameSeedSameLocks ==
    (fedNow /\ lastOp.call.prior.w1_lock = lastOp.twin.prior.w1_lock
            /\ lastOp.call.prior.w2_lock = lastOp.twin.prior.w2_lock)
        => sameFeedResult(lastOp.call.result, lastOp.twin.result)

(* C7 amended: two invocations of feedFromSeed with the same seed and the   *)
(* same lock set, on slices that hold the same values in the locked        *)
(* columns and, at index 0, the same weight locks with the same locked     *)
(* weights, yield identical batch_size, epoch_size, cycles, learning_rate, *)
(* clip range, activations and loss, and for slices with index 0 also      *)
(* identical percentages and weights.                                      *)
C7_SameSeedSameLockedValues ==
    (fedNow /\ sameLockedValues(lastOp.call.prior, lastOp.twin.prior, lastOp.call.locked))
        => sameFeedResult(lastOp.call.result, lastOp.twin.result)

C7_Witness ==
    /\ fedNow
    /\ lastOp.call.locked # {}
    /\ sameLockedValues(lastOp.call.prior, lastOp.twin.prior, lastOp.call.locked)
    /\ lastOp.call.prior.index = 0 /\ lastOp.twin.prior.index = 0
    /\ lastOp.call.prior.w1 # lastOp.twin.prior.w1
    /\ lastOp.call.prior.activation1 # lastOp.twin.prior.activation1

(* the weight entries that are not locked have the value of the run with   *)
(* nothing locked                                                          *)
unlockedWeightsAsUnlockedRun(call) ==
    \A cell \in WeightCells :
        lockAt(call.prior, cell) = 0 => weightAt(call.result, cell) = weightAt(call.unlocked, cell)

(* C8 as stated: with a single locked column, feedFromSeed gives every      *)
(* other column and, at index 0, the percentages and the unlocked weight   *)
(* entries the value that feedFromSeed gives with nothing locked.          *)
C8_SingleLockLeavesOthers ==
    \A call \in (IF fedNow THEN {lastOp.call, lastOp.twin} ELSE {}) :
        Cardinality(call.locked) = 1 =>
            /\ \A f \in FeedColumns \ lockedFields(call.locked) : call.result[f] = call.unlocked[f]
            /\ call.result.index = 0 =>
                  /\ call.result.xPercents = call.unlocked.xPercents
                  /\ unlockedWeightsAsUnlockedRun(call)

(* C8 amended: with a single locked column, feedFromSeed gives every other  *)
(* column and, at index 0, the percentages the value that feedFromSeed     *)
(* gives with nothing locked; at index 0 the unlocked weight entries have  *)
(* that value too unless the locked column is the clip range, and then     *)
(* they lie in the clip range that was kept.                               *)
C8_SingleLockLeavesOthersButWeightsOfKeptRange ==
    \A call \in (IF fedNow THEN {lastOp.call, lastOp.twin} ELSE {}) :
        Cardinality(call.locked) = 1 =>
            /\ \A f \in FeedColumns \ lockedFields(call.locked) : call.result[f] = call.unlocked[f]
            /\ call.result.index = 0 =>
                  /\ call.result.xPercents = call.unlocked.xPercents
                  /\ IF "minRange" \notin call.locked
                     THEN unlockedWeightsAsUnlockedRun(call)
                     ELSE \A cell \in WeightCells :
                             lockAt(call.prior, cell) = 0 =>
                                 /\ weightAt(call.result, cell) >= call.prior.minRange * FX
                                 /\ weightAt(call.result, cell) <= call.prior.maxRange * FX

C8_Witness ==
    /\ fedNow
    /\ lastOp.call.locked = {"minRange"}
    /\ lastOp.call.result.index = 0
    /\ lastOp.call.result.activation1 = lastOp.call.unlocked.activation1
    /\ lastOp.call.result.activation1 # lastOp.call.prior.activation1
    /\ lastOp.call.result.minRange # lastOp.call.unlocked.minRange
    /\ lastOp.call.result.w1 # lastOp.call.unlocked.w1

(* C9: feedFromSeed never overwrites a locked value: every locked column    *)
(* (the lock of the clip range holds clip min and clip max) keeps its      *)
(* prior value, and at index 0 every w1/w2 entry whose lock is 1 keeps its *)
(* prior value while every unlocked entry is redrawn: it is the draw of    *)
(* the seed within the clip range, whatever the entry was before.          *)
C9_LockedValuesKept ==
    \A call \in (IF fedNow THEN {lastOp.call, lastOp.twin} ELSE {}) :
        /\ \A f \in lockedFields(call.locked) : call.result[f] = call.prior[f]
        /\ call.result.index = 0 =>
              \A cell \in WeightCells :
                 IF lockAt(call.prior, cell) = 1
                 THEN weightAt(call.result, cell) = weightAt(call.prior, cell)
                 ELSE weightAt(call.result, cell) =
                         weightAt([w1 |-> uniform_keep_locked(zeros(3, 2), zeros(3, 2), default_rng(call.seed), 13,
                                                              call.result.minRange, call.result.maxRange),
                                   w2 |-> uniform_keep_locked(zeros(3, 1), zeros(3, 1), default_rng(call.seed), 19,
                                                              call.result.minRange, call.result.maxRange)], cell)

C9_Witness ==
    /\ fedNow
    /\ lastOp.call.result.index = 0
    /\ \E f \in lastOp.call.locked : lastOp.call.unlocked[f] # lastOp.call.prior[f]
    /\ lastOp.call.prior.w1_lock[1][1] = 1
    /\ lastOp.call.result.w1[1][1] = lastOp.call.prior.w1[1][1]
    /\ lastOp.call.prior.w1[1][1] #
          uniform_keep_locked(zeros(3, 2), zeros(3, 2), default_rng(lastOp.call.seed), 13,
                              lastOp.call.result.minRange, lastOp.call.result.maxRange)[1][1]
    /\ \E cell \in WeightCells :
          lockAt(lastOp.call.prior, cell) = 0 /\ weightAt(lastOp.call.result, cell) # weightAt(lastOp.call.prior, cell)

(***************************************************************************)
(* Editing the class percentages of the current slice                      *)
(***************************************************************************)
(* the '%' cell of row r commits a value of its spin box; X00_Model.flags   *)
(* leaves the last row read-only                                           *)
PercentEdit(r, value) ==
    /\ r \in 0..2
    /\ value \in IntDelegate_range(mXORmodel.crtSlice.xPercents, r)
    /\ mXORmodel' = [mXORmodel EXCEPT !.crtSlice.xPercents = X00_setData(@, r, value)]
    /\ lastOp' = Op("X00_setData", r)
    /\ UNCHANGED <<StayOnPosOnFillModel, jsonFile, nTrims>>
    /\ otherTab' = seenByOtherTab(otherTab, mXORmodel')
    /\ UNCHANGED <<fillFrame, tabModels>>
    /\ UNCHANGED lstLLB

NextPercent ==
    \/ \E r \in 0..2 : \E value \in PercentEdits : PercentEdit(r, value)
    \/ \E seed \in Seeds : RngSeedChanged(seed)
    \/ \E ix \in 0..(MaxCount - 1) : SetPos(ix)

SpecPercent == InitFeed /\ [][NextPercent]_vars

isPercentages(xPercents) ==
    /\ \A i \in 1..4 : xPercents[i] \in Nat
    /\ np_sum(xPercents) = 100

(* C10: the four class percentages of the current slice and of every       *)
(* stored turning point are non-negative integers that sum to exactly 100, *)
(* after feedFromSeed on a slice with index 0 and after every edit         *)
(* X00_Model.setData(row r in 0..2, value) of the percentage editor.       *)
C10_PercentagesSumTo100 ==
    /\ isPercentages(mXORmodel.crtSlice.xPercents)
    /\ \A i \in 1..Len(mXORmodel.lstTurningPoints) : isPercentages(mXORmodel.lstTurningPoints[i].xPercents)
    /\ fedNow => isPercentages(lastOp.call.result.xPercents)

C10_Witness ==
    /\ lastOp.name = "X00_setData"
    /\ lastOp.ix = 1
    /\ mXORmodel.crtSlice.xPercents[2] = 30
    /\ mXORmodel.crtSlice.xPercents[4] = mXORmodel.crtSlice.xPercents[3] + 1

(***************************************************************************)
(* The stored history and the current slice                                *)
(***************************************************************************)
(* FloatDelegate.setModelData of a weight cell whose text was edited: the   *)
(* lock is stored as it is, the value is stored into the array of the      *)
(* current slice the table model is bound to; the editor keeps the value   *)
(* in the range of the slice                                               *)
WeightEdited(cell, value) ==
    /\ cell \in LockCells
    /\ value >= mXORmodel.crtSlice.minRange * FX
    /\ value <= mXORmodel.crtSlice.maxRange * FX
    /\ value # (IF cell[1] = "w1" THEN mXORmodel.crtSlice.w1 ELSE mXORmodel.crtSlice.w2)[cell[2]][cell[3]]
    /\ mXORmodel' = write_in_place(mXORmodel,
          IF cell[1] = "w1"
          THEN [mXORmodel.crtSlice EXCEPT !.w1 = np_copy([@ EXCEPT ![cell[2]][cell[3]] = value])]
          ELSE [mXORmodel.crtSlice EXCEPT !.w2 = np_copy([@ EXCEPT ![cell[2]][cell[3]] = value])])
    /\ lastOp' = Op("setModelData", cell[2])
    /\ UNCHANGED <<StayOnPosOnFillModel, jsonFile, nTrims>>
    /\ otherTab' = seenByOtherTab(otherTab, mXORmodel')
    /\ UNCHANGED <<fillFrame, tabModels>>
    /\ UNCHANGED lstLLB

NextHistory ==
    \/ \E ix \in 0..(MaxCount - 1) : SetPos(ix)
    \/ FillFromCrtTP
    \/ \E cell \in LockCells : \E value \in WeightEdits : WeightEdited(cell, value)
    \/ \E e \in EpochEdits : EditEpochSize(e)

SpecHistory == InitFeed /\ [][NextHistory]_vars

(* the stored history of a controller *)
storedHistory(m) == <<m.lstTurningPoints, m.xor_array>>

(* C11: setPos leaves the turning-point list and every array of the Array   *)
(* Store unchanged, and so does a later edit of the current slice: of a    *)
(* weight or of a config field                                             *)
C11_SetPosKeepsHistory ==
    [][lastOp'.name \in {"setPos", "setModelData", "setData"}
       => storedHistory(mXORmodel') = storedHistory(mXORmodel)]_vars

(* a weight of the current slice was edited at a step that is not a turning *)
(* point, and differs from the stored weight of the step                   *)
C11_Witness ==
    /\ lastOp.name = "setModelData"
    /\ Len(mXORmodel.lstTurningPoints) >= 2
    /\ \A i \in 1..Len(mXORmodel.lstTurningPoints) :
          mXORmodel.lstTurningPoints[i].index # getPos(mXORmodel)
    /\ mXORmodel.crtSlice.w1 # mXORmodel.xor_array[getPos(mXORmodel) + 1].w1

(***************************************************************************)
(* The duplicate of a controller (main.py, Ctrl + D)                       *)
(***************************************************************************)
(* MainWindowXOR.setCrtModel: the model of the tab is set to the position  *)
(* of the slider when KeepOnePosForAllModels is on and to its own position *)
(* when it is off                                                          *)
setCrtModel(model, sliderValue, KeepOnePosForAllModels) ==
    setPos(model, IF KeepOnePosForAllModels THEN sliderValue ELSE getPos(model))

(* _duplicateModel: the clone opens in a new tab and is the model on       *)
(* screen; the original stays in its tab. One duplicate is made            *)
DuplicateModel ==
    /\ otherTab = NoTab
    /\ \E dup \in {clone(mXORmodel, StayOnPosOnFillModel)} :
          /\ \E keep \in BOOLEAN : mXORmodel' = setCrtModel(dup, getPos(mXORmodel), keep)
          /\ otherTab' = [mXORmodel EXCEPT !.shared = dup.shared]
    /\ lastOp' = Op("clone", 0)
    /\ UNCHANGED <<StayOnPosOnFillModel, jsonFile, nTrims>>
    /\ UNCHANGED <<fillFrame, tabModels>>
    /\ UNCHANGED lstLLB

(* a click on the tab of the original once the duplicate has opened: its  *)
(* controller is the model on screen                                       *)
SwitchTab ==
    /\ otherTab # NoTab
    /\ lastOp.name = "clone"
    /\ \E keep \in BOOLEAN : mXORmodel' = setCrtModel(otherTab, getPos(mXORmodel), keep)
    /\ otherTab' = mXORmodel
    /\ lastOp' = Op("setCrtModel", 0)
    /\ UNCHANGED <<StayOnPosOnFillModel, jsonFile, nTrims>>
    /\ UNCHANGED <<fillFrame, tabModels>>
    /\ UNCHANGED lstLLB

NextTabs ==
    \/ \E ix \in 0..(MaxCount - 1) : SetPos(ix)
    \/ FillFromCrtTP
    \/ (otherTab # NoTab /\ DeleteBefore)
    \/ (otherTab # NoTab /\ DeleteAfterPos)
    \/ DuplicateModel
    \/ SwitchTab

SpecTabs == InitFeed /\ [][NextTabs]_vars

(* what clone copies of a controller *)
clonedParts(m) ==
    <<m.lstTurningPoints, m.lstTurningPointsDiff, m.lst_TP_Final_Loss, m.maskParamLocks,
      m.xor_array>>

(* C12: the clone has the turning points (seeds included), the diff and    *)
(* final-loss lists, the lock mask and the Array Store of the original,    *)
(* and afterwards fillModelFromTP, deleteBefore and deleteAfterPos on one  *)
(* of the two controllers leave the turning points and arrays of the       *)
(* other as they were                                                      *)
C12_CloneEqualAndIndependent ==
    [][/\ lastOp'.name = "clone" =>
            /\ clonedParts(mXORmodel') = clonedParts(mXORmodel)
            /\ storedHistory(otherTab') = storedHistory(mXORmodel)
       /\ (otherTab # NoTab /\ lastOp'.name \in {"fillModelFromTP", "deleteBefore", "deleteAfterPos"})
            => storedHistory(otherTab') = storedHistory(otherTab)]_vars

(* the two controllers differ in turning points and in arrays after an     *)
(* operation on one of them                                                *)
C12_Witness ==
    /\ otherTab # NoTab
    /\ lastOp.name \in {"fillModelFromTP", "deleteBefore", "deleteAfterPos"}
    /\ Len(otherTab.lstTurningPoints) >= 2
    /\ otherTab.lstTurningPoints # mXORmodel.lstTurningPoints
    /\ otherTab.xor_array # mXORmodel.xor_array

(***************************************************************************)
(* Load failures (models.py LoadFromJson, main.py loadModel)               *)
(***************************************************************************)
(* json.load of a file whose root is not an object, of files with a        *)
(* version that is not supported or missing (.get gives None), and of the  *)
(* file SaveToJson wrote                                                   *)
JsonObjects(file) ==
    { [root |-> "list", version |-> "None", TP_list |-> << >>],
      [root |-> "dict", version |-> "0.9", TP_list |-> << >>],
      [root |-> "dict", version |-> "None", TP_list |-> << >>] }
    \cup (IF file = NoFile THEN {}
          ELSE {[root |-> "dict", version |-> file.version, TP_list |-> file.TP_list]})

(* the exception raised inside the try block of LoadFromJson, "" for none *)
LoadFromJson_try(jsonObject, stay) ==
    IF jsonObject.root # "dict" THEN "InvalidJsonObjectTypeError"
    ELSE IF jsonObject.version \notin XOR_JSON_SUPPORTED_MODELS THEN "UnsupportedXORJsonVersionError"
    ELSE IF ~LoadFromJson(jsonObject, stay).ok THEN "AssertionError"
    ELSE ""

(* the type of the exception LoadFromJson raises, "" for none: the handler *)
(* `except Exception as ex` raises Exception(strError)                     *)
LoadFromJson_raises(jsonObject, stay) ==
    IF LoadFromJson_try(jsonObject, stay) = "" THEN "" ELSE "Exception"

(* loadModel of a selected file: the loaded model becomes the model on      *)
(* screen; a load that raises shows a message and changes nothing          *)
OpenJson(jsonObject) ==
    /\ jsonObject \in JsonObjects(jsonFile)
    /\ \E raised \in {LoadFromJson_raises(jsonObject, StayOnPosOnFillModel)} :
          /\ mXORmodel' = IF raised = "" THEN LoadFromJson(jsonObject, StayOnPosOnFillModel).m
                          ELSE mXORmodel
          /\ lastOp' = [ name |-> "loadModel", ix |-> 0, root |-> jsonObject.root,
                         version |-> jsonObject.version, raised |-> raised,
                         returned |-> (raised = "") ]
    /\ UNCHANGED <<StayOnPosOnFillModel, jsonFile, nTrims>>
    /\ otherTab' = seenByOtherTab(otherTab, mXORmodel')
    /\ UNCHANGED <<fillFrame, tabModels>>
    /\ UNCHANGED lstLLB

NextLoad ==
    \/ (jsonFile = NoFile /\ \E ix \in 0..(MaxCount - 1) : SetPos(ix))
    \/ (jsonFile = NoFile /\ FillFromCrtTP)
    \/ SaveModel
    \/ \E jsonObject \in JsonObjects(jsonFile) : OpenJson(jsonObject)

SpecLoad == Init /\ [][NextLoad]_vars

(* C13: LoadFromJson of a root that is not an object raises                 *)
(* InvalidJsonObjectTypeError and of a version that is not supported       *)
(* raises UnsupportedXORJsonVersionError, and returns no controller        *)
C13_LoadErrorsTyped ==
    lastOp.name = "loadModel" =>
        /\ lastOp.root # "dict" =>
              (lastOp.raised = "InvalidJsonObjectTypeError" /\ ~lastOp.returned)
        /\ (lastOp.root = "dict" /\ lastOp.version \notin XOR_JSON_SUPPORTED_MODELS) =>
              (lastOp.raised = "UnsupportedXORJsonVersionError" /\ ~lastOp.returned)

(***************************************************************************)
(* Function names read from a file (models.py fromJson)                    *)
(***************************************************************************)
(* names a file can hold for a function: registered for the layer,         *)
(* registered for another layer only, not registered, missing              *)
JsonActivation1 == {"ReLU", "tanh", "BinaryStop", "softmax", ""}
JsonActivation2 == {"sigmoid", "BinaryStop", "LeakyReLU", "softmax", ""}
JsonLoss == {"Hinge_Loss", "Squared_Hinge_Loss_0_1", "sigmoid", "MSE", ""}

(* tp.fromJson(TP_Json_item) on tp = XOR_Slice(-1), for the serialized      *)
(* first turning point with the three function names of the file           *)
ReadTurningPoint(activation1, activation2, loss) ==
    /\ \E json_object \in {[toJson(mXORmodel.lstTurningPoints[1]) EXCEPT
                               !.activation1 = activation1, !.activation2 = activation2,
                               !.loss = loss]} :
          lastOp' = [ name |-> "fromJson", ix |-> 0, json_object |-> json_object,
                      tp |-> fromJson(XOR_Slice(0 - 1), json_object) ]
    /\ UNCHANGED <<mXORmodel, otherTab, StayOnPosOnFillModel, jsonFile, nTrims>>
    /\ UNCHANGED <<fillFrame, tabModels>>
    /\ UNCHANGED lstLLB

NextFromJson ==
    \E activation1 \in JsonActivation1 : \E activation2 \in JsonActivation2 : \E loss \in JsonLoss :
        ReadTurningPoint(activation1, activation2, loss)

SpecFromJson == Init /\ [][NextFromJson]_vars

(* the name a registry gives for a name read: the name when registered,    *)
(* the first entry otherwise                                               *)
registeredOrFirst(table, name) == IF seq_contains(table, name) THEN name ELSE table[1]

(* C14: fromJson replaces an unknown or missing hidden-activation, output- *)
(* activation or loss name by the first entry of the hidden, output or     *)
(* loss table, so activation1 is hidden-eligible, activation2 is           *)
(* output-eligible and loss is loss-eligible afterwards                    *)
C14_UnknownNamesFallBack ==
    lastOp.name = "fromJson" =>
        /\ lastOp.tp.activation1 = registeredOrFirst(HiddenLayer, lastOp.json_object.activation1)
        /\ lastOp.tp.activation2 = registeredOrFirst(OutputLayer, lastOp.json_object.activation2)
        /\ lastOp.tp.loss = registeredOrFirst(LossFunction, lastOp.json_object.loss)
        /\ seq_contains(HiddenLayer, lastOp.tp.activation1)
        /\ seq_contains(OutputLayer, lastOp.tp.activation2)
        /\ seq_contains(LossFunction, lastOp.tp.loss)

(* a file with a hidden-only output activation, an output-only hidden       *)
(* activation and no loss name was read                                    *)
C14_Witness ==
    /\ lastOp.name = "fromJson"
    /\ lastOp.json_object.activation1 = "BinaryStop"
    /\ lastOp.json_object.activation2 = "LeakyReLU"
    /\ lastOp.json_object.loss = ""
    /\ lastOp.tp.activation2 = "sigmoid"

(***************************************************************************)
(* Positions out of range (models.py setPos, deleteBefore, deleteAfterPos) *)
(***************************************************************************)
(* the positions the three operations are called with *)
Positions == (0 - 2)..(MaxCount + 1)

(* the nearest position in [0, count() - 1] *)
nearestPos(m, ix) == Min(Max(0, ix), count(m) - 1)

(* the exception deleteAfterPos(ix0) raises, "" for none: the assertion of *)
(* XOR_array_model.deleteAfter, and lstTurningPoints[-1] of the list the   *)
(* loop of pops has emptied after deleteAfter(-1) deleted every step       *)
deleteAfterPos_raises(m, ix0) ==
    LET ix == IF ix0 > 0 THEN ix0 - 1 ELSE ix0
    IN  IF ~(0 - 1 <= ix /\ ix <= count(m) - 1) THEN "AssertionError"
        ELSE IF ix = 0 - 1 THEN "IndexError"
        ELSE ""

(* the controller a raising deleteAfterPos(ix0) leaves: as it was when the *)
(* assertion fails, without steps and turning points at the IndexError     *)
deleteAfterPos_raised(m, ix0) ==
    IF deleteAfterPos_raises(m, ix0) = "IndexError"
    THEN [m EXCEPT !.xor_array = << >>, !.lstTurningPoints = << >>,
                   !.lstTurningPointsDiff = << >>, !.lst_TP_Final_Loss = << >>]
    ELSE m

(* a call mXORmodel.setPos(ix) *)
CallSetPos(ix) ==
    /\ count(mXORmodel) > 0
    /\ mXORmodel' = setPos(mXORmodel, ix)
    /\ lastOp' = [name |-> "setPos", ix |-> ix, raised |-> ""]
    /\ UNCHANGED <<StayOnPosOnFillModel, jsonFile, nTrims>>
    /\ otherTab' = seenByOtherTab(otherTab, mXORmodel')
    /\ UNCHANGED <<fillFrame, tabModels>>
    /\ UNCHANGED lstLLB

(* a call mXORmodel.deleteBefore(ix); the number of trims of a run is      *)
(* bounded                                                                 *)
CallDeleteBefore(ix) ==
    /\ count(mXORmodel) > 0
    /\ nTrims < MaxTrims
    /\ mXORmodel' = deleteBefore(mXORmodel, ix)
    /\ lastOp' = [name |-> "deleteBefore", ix |-> ix, raised |-> ""]
    /\ nTrims' = nTrims + 1
    /\ UNCHANGED <<StayOnPosOnFillModel, jsonFile>>
    /\ otherTab' = seenByOtherTab(otherTab, mXORmodel')
    /\ UNCHANGED <<fillFrame, tabModels>>
    /\ UNCHANGED lstLLB

(* a call mXORmodel.deleteAfterPos(ix) *)
CallDeleteAfterPos(ix) ==
    /\ count(mXORmodel) > 0
    /\ \E raised \in {deleteAfterPos_raises(mXORmodel, ix)} :
          /\ mXORmodel' = IF raised = "" THEN deleteAfterPos(mXORmodel, ix)
                          ELSE deleteAfterPos_raised(mXORmodel, ix)
          /\ lastOp' = [name |-> "deleteAfterPos", ix |-> ix, raised |-> raised]
    /\ UNCHANGED <<StayOnPosOnFillModel, jsonFile, nTrims>>
    /\ otherTab' = seenByOtherTab(otherTab, mXORmodel')
    /\ UNCHANGED <<fillFrame, tabModels>>
    /\ UNCHANGED lstLLB

NextPositions ==
    \/ (count(mXORmodel) > 0 /\ FillFromCrtTP)
    \/ \E ix \in Positions : CallSetPos(ix)
    \/ \E ix \in Positions : CallDeleteBefore(ix)
    \/ \E ix \in Positions : CallDeleteAfterPos(ix)

SpecPositions == InitFeed /\ [][NextPositions]_vars

(* C15: setPos, deleteBefore and deleteAfterPos called with a negative      *)
(* position or a position >= count() raise no error and behave as when     *)
(* called with the nearest position in range                               *)
C15_OutOfRangeClamped ==
    [][(/\ lastOp'.name \in {"setPos", "deleteBefore", "deleteAfterPos"}
        /\ (lastOp'.ix < 0 \/ lastOp'.ix >= count(mXORmodel)))
       => /\ lastOp'.raised = ""
          /\ mXORmodel' =
                IF lastOp'.name = "setPos"
                THEN setPos(mXORmodel, nearestPos(mXORmodel, lastOp'.ix))
                ELSE IF lastOp'.name = "deleteBefore"
                THEN deleteBefore(mXORmodel, nearestPos(mXORmodel, lastOp'.ix))
                ELSE deleteAfterPos(mXORmodel, nearestPos(mXORmodel, lastOp'.ix))]_vars

(***************************************************************************)
(* The name of the saved file (main.py saveModel)                          *)
(***************************************************************************)
(* a name of n letters *)
lettersName(n) == np_copy_row([i \in 1..n |-> IF i % 2 = 1 THEN "a" ELSE "b"])

(* what QFileDialog.getSaveFileName returns, as the complete base name of  *)
(* the file: "" for a cancelled dialog, names up to, at and over the limit *)
ChosenNames ==
    { << >>, Model_1, lettersName(MAX_LEN_FILENAME_JSON), lettersName(MAX_LEN_FILENAME_JSON + 1),
      lettersName(MAX_LEN_FILENAME_JSON + 5) }

(* the names typed into the tab editor, whose length the editor limits *)
TabNames == {lettersName(3), lettersName(MAX_LEN_FILENAME_JSON)}

(* whether saveModel opens the file dialog *)
saveModel_asks(m, bSaveAs) ==
    m.lastSavedFileInfo = None \/ m.lastSavedFileInfo # m.modelName \/ bSaveAs

(* variant: a name over the limit is cut and the model is saved under it   *)
saveModel_cutting(m, bSaveAs, chosen, ioError) ==
    LET asks == saveModel_asks(m, bSaveAs)
        completeBaseName == IF asks THEN SubSeq(chosen, 1, Min(Len(chosen), MAX_LEN_FILENAME_JSON))
                            ELSE m.modelName
    IN  IF asks /\ chosen = << >>
        THEN [ret |-> FALSE, m |-> m, wrote |-> FALSE, emitted |-> << >>]
        ELSE IF ioError
        THEN [ret |-> FALSE, m |-> m, wrote |-> FALSE, emitted |-> << >>]
        ELSE [ret |-> TRUE, m |-> SaveToJson_saved(m, completeBaseName), wrote |-> TRUE,
              emitted |-> <<completeBaseName>>]

(* MainWindowXOR.saveModel: the value returned, the controller, whether    *)
(* the file was written, and the arguments sigModelNameChanged was emitted *)
(* with; ioError is a write that raises                                    *)
saveModel(m, bSaveAs, chosen, ioError) ==
    LET asks == saveModel_asks(m, bSaveAs)
        completeBaseName == IF asks THEN chosen ELSE m.modelName
    IN  IF asks /\ chosen = << >>
        THEN [ret |-> FALSE, m |-> m, wrote |-> FALSE, emitted |-> << >>]
        ELSE IF asks /\ Len(completeBaseName) > MAX_LEN_FILENAME_JSON
        THEN LET modelName == SubSeq(completeBaseName, 1, MAX_LEN_FILENAME_JSON)
             IN  [ret |-> FALSE, m |-> [m EXCEPT !.modelName = modelName], wrote |-> FALSE,
                  emitted |-> <<modelName>>]
        ELSE IF ioError
        THEN [ret |-> FALSE, m |-> m, wrote |-> FALSE, emitted |-> << >>]
        ELSE [ret |-> TRUE, m |-> SaveToJson_saved(m, completeBaseName), wrote |-> TRUE,
              emitted |-> <<completeBaseName>>]

(* Ctrl + S and "Save as": the user answers the dialog when it opens *)
SaveModelAs(bSaveAs, chosen, ioError) ==
    /\ chosen \in (IF saveModel_asks(mXORmodel, bSaveAs) THEN ChosenNames ELSE {None})
    /\ \E r \in {saveModel(mXORmodel, bSaveAs, chosen, ioError)} :
          /\ mXORmodel' = r.m
          /\ jsonFile' = IF r.wrote THEN SaveToJson(mXORmodel) ELSE jsonFile
          /\ lastOp' = [ name |-> "saveModel", ix |-> 0, chosen |-> chosen, ret |-> r.ret,
                         wrote |-> r.wrote, emitted |-> r.emitted ]
    /\ UNCHANGED <<otherTab, StayOnPosOnFillModel, nTrims>>
    /\ UNCHANGED <<fillFrame, tabModels>>
    /\ UNCHANGED lstLLB

(* the tab editor closes with a new name *)
RenameTab(newTabName) ==
    /\ newTabName # mXORmodel.modelName
    /\ mXORmodel' = [mXORmodel EXCEPT !.modelName = newTabName]
    /\ lastOp' = Op("closeEvent", Len(newTabName))
    /\ UNCHANGED <<StayOnPosOnFillModel, jsonFile, nTrims>>
    /\ otherTab' = seenByOtherTab(otherTab, mXORmodel')
    /\ UNCHANGED <<fillFrame, tabModels>>
    /\ UNCHANGED lstLLB

NextSave ==
    \/ \E bSaveAs \in BOOLEAN : \E chosen \in ChosenNames \cup {None} : \E ioError \in BOOLEAN :
          SaveModelAs(bSaveAs, chosen, ioError)
    \/ \E newTabName \in TabNames : RenameTab(newTabName)
    \/ \E ix \in 0..(MaxCount - 1) : SetPos(ix)

SpecSave == Init /\ [][NextSave]_vars

(* C16: saveModel with a chosen base name longer than MAX_LEN_FILENAME_JSON *)
(* returns False, writes no file, leaves lastSavedFileInfo as it was, sets *)
(* modelName to the first 50 characters and emits sigModelNameChanged with *)
(* that name                                                               *)
C16_LongNameDeclined ==
    [][(/\ lastOp'.name = "saveModel"
        /\ lastOp'.chosen # None
        /\ Len(lastOp'.chosen) > MAX_LEN_FILENAME_JSON)
       => /\ lastOp'.ret = FALSE
          /\ ~lastOp'.wrote
          /\ jsonFile' = jsonFile
          /\ mXORmodel'.lastSavedFileInfo = mXORmodel.lastSavedFileInfo
          /\ mXORmodel'.modelName = SubSeq(lastOp'.chosen, 1, MAX_LEN_FILENAME_JSON)
          /\ lastOp'.emitted = <<SubSeq(lastOp'.chosen, 1, MAX_LEN_FILENAME_JSON)>>]_vars

(* a model saved before under a short name was then declined a name over   *)
(* the limit                                                               *)
C16_Witness ==
    /\ lastOp.name = "saveModel"
    /\ lastOp.chosen = lettersName(MAX_LEN_FILENAME_JSON + 5)
    /\ mXORmodel.lastSavedFileInfo = Model_1
    /\ Len(mXORmodel.modelName) = MAX_LEN_FILENAME_JSON
    /\ jsonFile # NoFile


(***************************************************************************)
(* A fill that reports its progress: fillModelFromTP with a main window.   *)
(* TitledProgressBar.setValue pumps the event loop, so the controller is   *)
(* visible to event handlers at every call of it; fillFrame holds the      *)
(* locals of the running fillModelFromTP and of its newArray.fillModel     *)
(***************************************************************************)

(* fillModelFromTP up to the creation of newArray: the pops, deleteAfter,  *)
(* and the last turning point adjusted or removed; the diff and loss lists *)
(* are cut only after the fill                                             *)
fillModelFromTP_enter(m, argTP) ==
    LET newTP0 == slice_clone(argTP)
        m1 == pop_after(m, newTP0.index)
        bNewTP_is_In_list == (newTP0.index = Last(m1.lstTurningPoints).index)
        arr1 == IF ~bNewTP_is_In_list
                THEN array_deleteAfter(m1.xor_array, newTP0.index)
                ELSE array_deleteAfter(m1.xor_array, newTP0.index - 1)
        tps2 == IF ~bNewTP_is_In_list
                THEN [m1.lstTurningPoints EXCEPT ![Len(m1.lstTurningPoints)].epoch_size =
                          array_count(arr1) - Last(m1.lstTurningPoints).index]
                ELSE Front(m1.lstTurningPoints)
    IN  [m |-> [m1 EXCEPT !.xor_array = arr1, !.lstTurningPoints = tps2],
         newTP |-> IF ~bNewTP_is_In_list THEN [newTP0 EXCEPT !.index = @ + 1] ELSE newTP0]

(* fillModel before its loop: the generator and row 0 of w1 and w2 *)
fillModel_rng(fromTP) ==
    default_rng(fromTP.index + (IF fromTP.seedTP >= 0 THEN fromTP.seedTP ELSE 0))

fillModel_first(fromTP) ==
    [xHits |-> <<0, 0, 0, 0>>,
     w1 |-> np_copy(mat_clip(fromTP.w1, fromTP.minRange * FX, fromTP.maxRange * FX)),
     w2 |-> np_copy(mat_clip(fromTP.w2, fromTP.minRange * FX, fromTP.maxRange * FX)),
     pos |-> 0]

(* variant: the observer is called before the weights of the step are kept *)
fillModel_step_unstored(fromTP, steps) == steps

(* one pass of `for i in range(1, epoch_size)`: the cycles from the row     *)
(* before, then self.w2[i] = w2 and self.w1[i] = w1                         *)
fillModel_step(fromTP, steps) ==
    Append(steps, fill_cycles(fromTP, steps[Len(steps)], fillModel_rng(fromTP),
                              fromTP.cyclesPerOneStepFwdOfEpoch))

(* fillModel after its loop: the bulk evaluation of every row *)
fillModel_evaluated(fromTP, steps) ==
    np_copy_row([i \in 1..Len(steps) |-> fill_evaluate(fromTP, steps[i])])

(* fillModelFromTP from the return of newArray.fillModel to its end *)
fillModelFromTP_leave(m, newTP, newArray, stay) ==
    LET tps2 == m.lstTurningPoints
        diffs2 == SubSeq(m.lstTurningPointsDiff, 1, Min(Len(tps2), Len(m.lstTurningPointsDiff)))
        losses2 == SubSeq(m.lst_TP_Final_Loss, 1, Min(Len(tps2), Len(m.lst_TP_Final_Loss)))
        val_NewArrayLastLoss == Last(newArray).lossAvg
        strDiff0 == IF Len(tps2) > 0
                    THEN slice_diff(newTP, [slice_clone(Last(tps2)) EXCEPT
                                               !.w1 = Last(m.xor_array).w1,
                                               !.w2 = Last(m.xor_array).w2], TRUE)
                    ELSE slice_diff(newTP, newTP, FALSE)
        strDiff == [strDiff0 EXCEPT !.loss = getHTML_loss(val_NewArrayLastLoss)]
        m2 == [m EXCEPT !.xor_array = array_append(m.xor_array, newArray),
                        !.lstTurningPointsDiff = Append(diffs2, strDiff),
                        !.lstTurningPoints = Append(tps2, newTP),
                        !.lst_TP_Final_Loss = Append(losses2, val_NewArrayLastLoss)]
    IN  assign(m2, LAMBDA filled :
            setPos(filled, fillModelFromTP_ix(newTP, filled, stay)))

(* ControlPanel.FillFromCrtTP with a main window, up to the first call of  *)
(* the observer: setMax_prefixValue calls setValue(0)                      *)
FillEnter ==
    /\ fillFrame = NoFrame
    /\ countAfterFill(mXORmodel) <= MaxCount
    /\ \E entered \in {fillModelFromTP_enter(mXORmodel, mXORmodel.crtSlice)} :
          /\ Len(entered.m.lstTurningPoints) < MaxTP
          /\ mXORmodel' = entered.m
          /\ fillFrame' = [newTP |-> entered.newTP, i |-> 0,
                           steps |-> <<fillModel_first(entered.newTP)>>]
    /\ lastOp' = Op("setValue", 0)
    /\ UNCHANGED <<tabModels, StayOnPosOnFillModel, jsonFile, nTrims>>
    /\ otherTab' = seenByOtherTab(otherTab, mXORmodel')
    /\ UNCHANGED lstLLB

(* one step of the loop of fillModel, up to its progressBar.setValue(i) *)
FillProgress ==
    /\ fillFrame # NoFrame
    /\ fillFrame.i + 1 < fillFrame.newTP.epoch_size
    /\ fillFrame' = [fillFrame EXCEPT !.i = @ + 1,
                                      !.steps = fillModel_step(fillFrame.newTP, @)]
    /\ lastOp' = Op("setValue", fillFrame.i + 1)
    /\ UNCHANGED <<mXORmodel, otherTab, tabModels, StayOnPosOnFillModel, jsonFile, nTrims>>
    /\ UNCHANGED lstLLB

(* the loop is over: the evaluation, and the rest of fillModelFromTP *)
FillLeave ==
    /\ fillFrame # NoFrame
    /\ fillFrame.i + 1 >= fillFrame.newTP.epoch_size
    /\ mXORmodel' = fillModelFromTP_leave(mXORmodel, fillFrame.newTP,
                        fillModel_evaluated(fillFrame.newTP, fillFrame.steps),
                        StayOnPosOnFillModel)
    /\ fillFrame' = NoFrame
    /\ lastOp' = Op("fillModelFromTP", fillFrame.newTP.index)
    /\ UNCHANGED <<tabModels, StayOnPosOnFillModel, jsonFile, nTrims>>
    /\ otherTab' = seenByOtherTab(otherTab, mXORmodel')
    /\ UNCHANGED lstLLB

(* the slider may move at any time, also from an event handler that runs   *)
(* inside a call of the observer; the panel is edited between the fills    *)
NextProgress ==
    \/ \E ix \in 0..(MaxCount - 1) : SetPos(ix)
    \/ \E e \in ProgressEpochs : (fillFrame = NoFrame /\ EditEpochSize(e))
    \/ FillEnter
    \/ FillProgress
    \/ FillLeave

SpecProgress == InitFeed /\ [][NextProgress]_vars

(* C17: at every call of the progress observer during fillModelFromTP the  *)
(* turning-point list is non-empty and the length of the Array Store is    *)
(* the sum of the stored epoch sizes                                       *)
C17_ConsistentAtProgress ==
    fillFrame # NoFrame =>
        /\ Len(mXORmodel.lstTurningPoints) > 0
        /\ count(mXORmodel) = sumEpochSize(mXORmodel)

(* C18: with a progress host the observer is called once after each step   *)
(* i = 1 .. epoch_size - 1 of the segment, in increasing order of i, and   *)
(* when it is called for i the weights of step i are stored: they are the  *)
(* weights of row i of the segment that the fill appends                   *)
C18_ProgressOncePerStep ==
    [][/\ (fillFrame = NoFrame /\ fillFrame' # NoFrame) => fillFrame'.i = 0
       /\ (fillFrame # NoFrame /\ fillFrame' # NoFrame /\ fillFrame' # fillFrame) =>
              /\ fillFrame'.i = fillFrame.i + 1
              /\ lastOp' = Op("setValue", fillFrame'.i)
              /\ Len(fillFrame'.steps) = fillFrame'.i + 1
              /\ SubSeq(fillFrame'.steps, 1, fillFrame'.i) = fillFrame.steps
       /\ (fillFrame # NoFrame /\ fillFrame' = NoFrame) =>
              /\ fillFrame.i = fillFrame.newTP.epoch_size - 1
              /\ \A i \in 0..fillFrame.i :
                    LET row == mXORmodel'.xor_array[fillFrame.newTP.index + i + 1]
                    IN  row.w1 = fillFrame.steps[i + 1].w1 /\ row.w2 = fillFrame.steps[i + 1].w2
      ]_vars

C18_Witness ==
    /\ fillFrame # NoFrame
    /\ fillFrame.i = 2
    /\ lastOp = Op("setValue", 2)
    /\ fillFrame.steps[3].w1 # fillFrame.steps[2].w1


(***************************************************************************)
(* The gradients of XOR_back_prop against the differences of the loss.     *)
(* The functions drawn are those that the fixed-point library computes     *)
(* without rounding: piecewise linear activations and the hinge losses     *)
(***************************************************************************)
GradHidden == {"ReLU", "linear"}
GradOutput == {"ReLU", "linear", "BinaryStop"}
GradLoss == {"Hinge_Loss", "Hinge_Loss_0_1"}
GradWeights == {0 - 12, 7}
GradW1 == {<< <<a, b>>, <<c, a>>, <<b, c>> >> : a \in GradWeights, b \in GradWeights, c \in GradWeights}
GradW2 == {<< <<a>>, <<b>>, <<c>> >> : a \in GradWeights, b \in GradWeights, c \in GradWeights}
GradBatches == {<<h>> : h \in 1..4} \cup {<<h, k>> : h \in 1..4, k \in 1..4}

(* the inputs of one cycle of fillModel: the functions of the slice, the   *)
(* weights, and the mini-batch of the rows hits of X_BATCH_4               *)
GradCalls ==
    {[name |-> "fill_cycle", ix |-> Len(hits),
      x |-> [k \in DOMAIN hits |-> X_BATCH_4[hits[k]]],
      y_true |-> [k \in DOMAIN hits |-> Y_XOR_TRUE_4[hits[k]]],
      activation1 |-> activation1, activation2 |-> activation2, fctLoss |-> fctLoss,
      w1 |-> w1, w2 |-> w2] :
        activation1 \in GradHidden, activation2 \in GradOutput, fctLoss \in GradLoss,
        w1 \in GradW1, w2 \in GradW2, hits \in GradBatches}

InitBackProp ==
    /\ StayOnPosOnFillModel = TRUE
    /\ \E seed \in Seeds : mXORmodel = XOR_model(XOR_Slice(seed), StayOnPosOnFillModel)
    /\ otherTab = NoTab
    /\ fillFrame = NoFrame
    /\ tabModels = TabDragEdit(Model_1)
    /\ lstLLB = ListLabelsLockBuddy
    /\ jsonFile = NoFile
    /\ lastOp \in GradCalls
    /\ nTrims = 0

(* the forward pass of the cycle *)
ForwardProp ==
    /\ lastOp.name = "fill_cycle"
    /\ LET call == lastOp
           computed == XOR_forward_prop(call.x, call.w1, call.activation1, call.w2, call.activation2)
       IN  lastOp' = [name |-> "XOR_forward_prop", ix |-> call.ix, x |-> call.x,
                      y_true |-> call.y_true, activation1 |-> call.activation1,
                      activation2 |-> call.activation2, fctLoss |-> call.fctLoss,
                      w1 |-> call.w1, w2 |-> call.w2, a1 |-> computed.a1, a2 |-> computed.a2]
    /\ UNCHANGED <<mXORmodel, otherTab, fillFrame, tabModels, StayOnPosOnFillModel, jsonFile, nTrims>>
    /\ UNCHANGED lstLLB

(* XOR_back_prop on the a1 and a2 of the forward pass *)
BackProp ==
    /\ lastOp.name = "XOR_forward_prop"
    /\ LET call == lastOp
       IN  lastOp' = [name |-> "XOR_back_prop", ix |-> call.ix, x |-> call.x,
                      y_true |-> call.y_true, activation1 |-> call.activation1,
                      activation2 |-> call.activation2, fctLoss |-> call.fctLoss,
                      w1 |-> call.w1, w2 |-> call.w2,
                      d |-> XOR_back_prop(call.x, call.activation1, call.a1, call.w2,
                                          call.activation2, call.a2, call.y_true, call.fctLoss)]
    /\ UNCHANGED <<mXORmodel, otherTab, fillFrame, tabModels, StayOnPosOnFillModel, jsonFile, nTrims>>
    /\ UNCHANGED lstLLB

NextBackProp ==
    \/ ForwardProp
    \/ BackProp

SpecBackProp == InitBackProp /\ [][NextBackProp]_vars

(* the losses of the samples of a call, with other weights *)
sampleLosses(call, w1, w2) ==
    LET a2 == XOR_forward_prop(call.x, w1, call.activation1, w2, call.activation2).a2
    IN  [k \in DOMAIN call.x |-> loss_value(call.fctLoss, a2[k], call.y_true[k])]

(* the weight of row r and column c moved by h *)
moved(w, r, c, h) == [w EXCEPT ![r][c] = @ + h]

(* the linear piece a sample is on: the signs of z1 and z2 and whether the *)
(* hinge is active; between two weights on the same piece that differ in   *)
(* one entry the loss of the sample is linear                              *)
linearPiece(call, w1, w2) ==
    [k \in DOMAIN call.x |->
        LET z1 == forward_z1(call.x[k], w1)
            a1 == forward_a1(call.x[k], w1, call.activation1)
            z2 == forward_z2(a1, w2)
        IN  <<z1[1] > 0, z1[2] > 0, z2 > 0,
              loss_value(call.fctLoss, act_value(call.activation2, z2), call.y_true[k]) > 0>>]

(* 2 m times the gradient is the difference of the summed loss between     *)
(* w - 1.0 and w + 1.0, within 0.2 on the gradient, where the samples stay *)
(* on their linear piece                                                   *)
matchesDifference(call, dw, w1_below, w2_below, w1_above, w2_above) ==
    LET m == Len(call.x)
        piece == linearPiece(call, call.w1, call.w2)
    IN  (linearPiece(call, w1_below, w2_below) = piece /\ linearPiece(call, w1_above, w2_above) = piece) =>
            LET diff == 2 * m * dw - (np_sum(sampleLosses(call, w1_above, w2_above))
                                      - np_sum(sampleLosses(call, w1_below, w2_below)))
            IN  diff <= 4 * m /\ 0 - diff <= 4 * m

(* C19: the gradients dW1 and dW2 of XOR_back_prop are, within tolerance,  *)
(* the gradients of the batch-averaged loss with respect to every entry of *)
(* W1 and W2, bias rows included, for every drawn pair of weights, every   *)
(* mini-batch and every combination of activations and loss                *)
C19_GradientsOfAveragedLoss ==
    lastOp.name = "XOR_back_prop" =>
        LET call == lastOp
        IN  /\ \A r \in 1..3 : \A c \in 1..2 :
                   matchesDifference(call, call.d.dw1[r][c],
                                     moved(call.w1, r, c, 0 - FX), call.w2,
                                     moved(call.w1, r, c, FX), call.w2)
            /\ \A r \in 1..3 :
                   matchesDifference(call, call.d.dw2[r][1],
                                     call.w1, moved(call.w2, r, 1, 0 - FX),
                                     call.w1, moved(call.w2, r, 1, FX))


(***************************************************************************)
(* The names of the tabs: new models, duplicates and loaded models get     *)
(* their name from getNextName; the tab editor sets any text               *)
(***************************************************************************)
TabNameA == <<"A">>
TabNameB == <<"B">>
TabTexts == {TabNameA, try_this(TabNameA, 0), try_this(TabNameA, 1)}
NextNames == {<< >>, TabNameA, TabNameB, try_this(TabNameA, 0)}

(* a call of getNextName *)
GetNextName(arg) ==
    /\ (arg = << >> => tabModels.id_generator < MaxTabs)
    /\ \E r \in {getNextName(tabModels, arg)} :
          /\ tabModels' = r.self
          /\ lastOp' = [name |-> "getNextName", ix |-> 0, arg |-> arg,
                        tabText |-> tabModels.tabText, ret |-> r.ret]
    /\ UNCHANGED <<mXORmodel, otherTab, fillFrame, StayOnPosOnFillModel, jsonFile, nTrims>>
    /\ UNCHANGED lstLLB

(* a tab is added under the next name: at the end for a new model, after   *)
(* the current tab crt for a named one                                     *)
AddTab(arg, crt) ==
    /\ Len(tabModels.tabText) < MaxTabs
    /\ (arg = << >> => tabModels.id_generator < MaxTabs)
    /\ crt \in 0..(Len(tabModels.tabText) - 2)
    /\ \E r \in {getNextName(tabModels, arg)} :
          /\ \E ix \in {IF arg = << >> THEN Len(tabModels.tabText) - 1 ELSE crt + 1} :
                tabModels' = [insertTab(r.self, ix, r.ret) EXCEPT !.currentIndex = ix]
          /\ lastOp' = [name |-> "addTabAndEdit", ix |-> crt, arg |-> arg,
                        tabText |-> tabModels.tabText, ret |-> r.ret]
    /\ UNCHANGED <<mXORmodel, otherTab, fillFrame, StayOnPosOnFillModel, jsonFile, nTrims>>
    /\ UNCHANGED lstLLB

(* the tab editor of tab ix closes with another text *)
EditTab(ix, newTabName) ==
    /\ ix \in 1..(Len(tabModels.tabText) - 1)
    /\ tabModels.tabText[ix] # newTabName
    /\ tabModels' = [tabModels EXCEPT !.tabText[ix] = newTabName, !.currentIndex = ix - 1]
    /\ lastOp' = Op("editTab", ix)
    /\ UNCHANGED <<mXORmodel, otherTab, fillFrame, StayOnPosOnFillModel, jsonFile, nTrims>>
    /\ UNCHANGED lstLLB

(* the close button of tab ix, or Del on the current tab: removeTab(ix),    *)
(* ix from 0; with "Save" the main window saves its model, and a name it   *)
(* changes becomes the text of the current tab                             *)
RemoveTab(ix, clickedButton, chosen, ioError) ==
    /\ ix \in 0..(Len(tabModels.tabText) - 1)
    /\ LET saves == /\ Len(tabModels.tabText) > 2
                    /\ tabModels.tabText[ix + 1] # PLUS_UNICODE
                    /\ clickedButton = "btnSave"
       IN  /\ chosen \in (IF saves /\ saveModel_asks(mXORmodel, FALSE) THEN ChosenNames ELSE {None})
           /\ ioError => saves
           /\ \E r \in {saveModel(mXORmodel, FALSE, chosen, ioError)} :
                 /\ mXORmodel' = IF saves THEN r.m ELSE mXORmodel
                 /\ jsonFile' = IF saves /\ r.wrote THEN SaveToJson(mXORmodel) ELSE jsonFile
                 /\ tabModels' = removeTab(
                        IF saves /\ r.emitted # << >>
                        THEN [tabModels EXCEPT !.tabText[tabModels.currentIndex + 1] = r.emitted[1]]
                        ELSE tabModels,
                        ix, clickedButton, r.ret)
                 /\ lastOp' = [name |-> "removeTab", ix |-> ix, clickedButton |-> clickedButton,
                               saved |-> (saves /\ r.ret), tabText |-> tabModels.tabText]
    /\ UNCHANGED <<otherTab, fillFrame, StayOnPosOnFillModel, nTrims>>
    /\ UNCHANGED lstLLB

NextTabNames ==
    \/ \E arg \in NextNames : GetNextName(arg)
    \/ \E arg \in NextNames : \E crt \in 0..(MaxTabs - 2) : AddTab(arg, crt)
    \/ \E ix \in 1..(MaxTabs - 1) : \E newTabName \in TabTexts : EditTab(ix, newTabName)
    \/ \E ix \in 0..(MaxTabs - 1) : RemoveTab(ix, "btnOk", None, FALSE)

SpecTabNames == InitFeed /\ [][NextTabNames]_vars

(* C20: for a non-empty name getNextName returns the name when the text of *)
(* no tab starts with it, and otherwise name(k) for the smallest k >= 1    *)
(* for which name(k) is not the text of a tab; the name returned is never  *)
(* the text of a tab                                                       *)
C20_NextNameIsFree ==
    (lastOp.name = "getNextName" /\ lastOp.arg # << >>) =>
        LET isText(t) == \E j \in DOMAIN lastOp.tabText : lastOp.tabText[j] = t
            numbered(k) == lastOp.arg \o <<"(">> \o str(k) \o <<")">>
        IN  /\ (\A j \in DOMAIN lastOp.tabText : ~startswith(lastOp.tabText[j], lastOp.arg))
                   => lastOp.ret = lastOp.arg
            /\ (\E j \in DOMAIN lastOp.tabText : startswith(lastOp.tabText[j], lastOp.arg))
                   => \E k \in 1..(Len(lastOp.tabText) + 1) :
                          /\ lastOp.ret = numbered(k)
                          /\ \A h \in 1..(k - 1) : isText(numbered(h))
            /\ ~isText(lastOp.ret)

C20_Witness ==
    /\ lastOp.name = "getNextName"
    /\ lastOp.arg = TabNameA
    /\ lastOp.ret = try_this(TabNameA, 2)
    /\ \A j \in DOMAIN lastOp.tabText : lastOp.tabText[j] # TabNameA


(***************************************************************************)
(* Closing tabs: models are added, a tab is clicked, and a tab is closed   *)
(* with each answer to "Do you want to save"                               *)
(***************************************************************************)
Buttons == {"btnSave", "btnOk", "btnCancel"}

(* a click on the tab ix, from 0, other than '+' *)
SelectTab(ix) ==
    /\ ix \in 0..(Len(tabModels.tabText) - 2)
    /\ ix # tabModels.currentIndex
    /\ tabModels' = [tabModels EXCEPT !.currentIndex = ix]
    /\ lastOp' = Op("setCurrentIndex", ix)
    /\ UNCHANGED <<mXORmodel, otherTab, fillFrame, StayOnPosOnFillModel, jsonFile, nTrims>>
    /\ UNCHANGED lstLLB

NextTabClose ==
    \/ \E crt \in 0..(MaxTabs - 2) : AddTab(<< >>, crt)
    \/ \E ix \in 0..(MaxTabs - 2) : SelectTab(ix)
    \/ \E ix \in 0..(MaxTabs - 1) : \E clickedButton \in Buttons :
          \E chosen \in ChosenNames \cup {None} : \E ioError \in BOOLEAN :
              RemoveTab(ix, clickedButton, chosen, ioError)

SpecTabClose == InitFeed /\ [][NextTabClose]_vars

(* C21: removeTab(ix) on a tab other than '+', the index 0 included, with  *)
(* more than one such tab removes exactly the tab ix when the user answers *)
(* "Don't Save" and leaves the tabs as they are when the user cancels; the *)
(* '+' tab and the last other tab are never removed                        *)
C21_RemovesTheTabAsked ==
    lastOp.name = "removeTab" =>
        LET before == lastOp.tabText
            ix == lastOp.ix
        IN  /\ (ix < Len(before) - 1 /\ Len(before) > 2 /\ lastOp.clickedButton = "btnOk") =>
                   tabModels.tabText = SubSeq(before, 1, ix) \o SubSeq(before, ix + 2, Len(before))
            /\ lastOp.clickedButton = "btnCancel" => tabModels.tabText = before
            /\ Len(tabModels.tabText) >= 2
            /\ tabModels.tabText[Len(tabModels.tabText)] = PLUS_UNICODE


(***************************************************************************)
(* Further properties of the timeline controller                           *)
(***************************************************************************)

(* C22: for every stored turning point T the weights of the Array Store at *)
(* the position T.index are T.w1 and T.w2 clipped into the range of T, in  *)
(* every state reached by construction, fills, deleteBefore,               *)
(* deleteAfterPos and the load of a saved file                             *)
C22_SegmentStartsAtClippedTP ==
    \A i \in 1..Len(mXORmodel.lstTurningPoints) :
        LET T == mXORmodel.lstTurningPoints[i]
        IN  /\ T.index < count(mXORmodel)
            /\ mXORmodel.xor_array[T.index + 1].w1 = mat_clip(T.w1, T.minRange * FX, T.maxRange * FX)
            /\ mXORmodel.xor_array[T.index + 1].w2 = mat_clip(T.w2, T.minRange * FX, T.maxRange * FX)

(* C23: a fill from the position p that is not the index of a stored       *)
(* turning point leaves the Array Store at the positions 0..p as it was,   *)
(* stores the new turning point with the index p + 1, sets epoch_size of   *)
(* the turning point before it to p + 1 minus its index, and gives         *)
(* count() = p + 1 + epoch_size of the new turning point                   *)
C23_FillBetweenTurningPoints ==
    [][ LET p == mXORmodel.crtSlice.index
            old == mXORmodel.lstTurningPoints
            new == mXORmodel'.lstTurningPoints
        IN  (/\ lastOp'.name = "fillModelFromTP"
             /\ \A i \in 1..Len(old) : old[i].index # p) =>
                /\ SubSeq(mXORmodel'.xor_array, 1, p + 1) = SubSeq(mXORmodel.xor_array, 1, p + 1)
                /\ Len(new) >= 2
                /\ Last(new).index = p + 1
                /\ new[Len(new) - 1].epoch_size = p + 1 - new[Len(new) - 1].index
                /\ count(mXORmodel') = p + 1 + mXORmodel.crtSlice.epoch_size
                /\ Last(new).epoch_size = mXORmodel.crtSlice.epoch_size ]_vars

(* a fill was made from a position inside a segment, after its first step *)
C23_Witness ==
    /\ lastOp.name = "fillModelFromTP"
    /\ Len(mXORmodel.lstTurningPoints) >= 2
    /\ Last(mXORmodel.lstTurningPoints).index = lastOp.ix + 1
    /\ lastOp.ix >= 1

(* C24: a fill from the position p removes every stored turning point with *)
(* an index greater than p together with its diff text and its final loss, *)
(* replaces a turning point with the index p by the new one, the Array     *)
(* Store below p staying as it was, and leaves the new turning point last  *)
(* in the list                                                             *)
C24_FillCutsLaterTurningPoints ==
    [][ LET p == mXORmodel.crtSlice.index
            old == mXORmodel.lstTurningPoints
            new == mXORmodel'.lstTurningPoints
            k == Cardinality({i \in 1..Len(old) : old[i].index < p})
            inList == \E i \in 1..Len(old) : old[i].index = p
        IN  lastOp'.name = "fillModelFromTP" =>
                /\ Len(new) = k + 1
                /\ Len(mXORmodel'.lstTurningPointsDiff) = k + 1
                /\ Len(mXORmodel'.lst_TP_Final_Loss) = k + 1
                /\ \A i \in 1..k :
                      /\ new[i].index = old[i].index
                      /\ new[i].index < Last(new).index
                      /\ mXORmodel'.lstTurningPointsDiff[i] = mXORmodel.lstTurningPointsDiff[i]
                      /\ mXORmodel'.lst_TP_Final_Loss[i] = mXORmodel.lst_TP_Final_Loss[i]
                /\ inList =>
                      /\ Last(new).index = p
                      /\ SubSeq(new, 1, k) = SubSeq(old, 1, k)
                      /\ SubSeq(mXORmodel'.xor_array, 1, p) = SubSeq(mXORmodel.xor_array, 1, p)
                /\ [Last(new) EXCEPT !.index = p] = slice_clone(mXORmodel.crtSlice) ]_vars

(* a fill from the index of the second stored turning point, which the new *)
(* turning point replaced                                                  *)
C24_Witness ==
    /\ lastOp.name = "fillModelFromTP"
    /\ lastOp.ix >= 1
    /\ Len(mXORmodel.lstTurningPoints) = 2
    /\ Last(mXORmodel.lstTurningPoints).index = lastOp.ix

(* C25: after a fill the current position follows StayOnPosOnFillModel:    *)
(* when it is false the position is the last one, count() - 1, when it is  *)
(* true the position is the one the fill was started from, the index of    *)
(* the turning point passed in; sigModelChanged carries that position      *)
C25_PositionFollowsPolicy ==
    [][ lastOp'.name = "fillModelFromTP" =>
            /\ getPos(mXORmodel') = IF StayOnPosOnFillModel
                                    THEN mXORmodel.crtSlice.index
                                    ELSE count(mXORmodel') - 1
            /\ lastOp'.sigModelChanged = getPos(mXORmodel') ]_vars

(***************************************************************************)
(* Fills of slices with locked weights                                     *)
(***************************************************************************)
(* weight locks are set, the seed redraws learning rate, cycles per step,  *)
(* clip range, functions and the unlocked weights, and the slice is filled *)
(* the rng seed spin box changes: the current slice is fed from the seed *)
SeedEdited(seed) ==
    /\ seed # mXORmodel.crtSlice.seedTP
    /\ \E changed \in {rngSpinBox_valueChanged(mXORmodel, seed)} : mXORmodel' = changed
    /\ lastOp' = Op("rngSpinBox_valueChanged", seed)
    /\ UNCHANGED <<StayOnPosOnFillModel, jsonFile, nTrims>>
    /\ otherTab' = seenByOtherTab(otherTab, mXORmodel')
    /\ UNCHANGED <<fillFrame, tabModels>>
    /\ UNCHANGED lstLLB

NextLockedFill ==
    \/ \E cell \in LockCells : WeightLockFlipped(cell)
    \/ \E seed \in Seeds : SeedEdited(seed)
    \/ \E ix \in 0..(MaxCount - 1) : SetPos(ix)
    \/ FillFromCrtTP

SpecLockedFill == InitFeed /\ [][NextLockedFill]_vars

(* the positions of the segment of the i-th turning point *)
segment(m, i) ==
    m.lstTurningPoints[i].index ..
        (IF i < Len(m.lstTurningPoints) THEN m.lstTurningPoints[i + 1].index - 1 ELSE count(m) - 1)

(* C26: in the segment a fill generated, every entry of w1 and w2 whose    *)
(* lock is 1 has at every step the value it has at step 0 of the segment   *)
C26_LockedWeightsConstant ==
    \A i \in 1..Len(mXORmodel.lstTurningPoints) :
        LET T == mXORmodel.lstTurningPoints[i]
            arr == mXORmodel.xor_array
        IN  \A p \in segment(mXORmodel, i) : \A r \in 1..3 :
                /\ \A c \in 1..2 : T.w1_lock[r][c] = 1 => arr[p + 1].w1[r][c] = arr[T.index + 1].w1[r][c]
                /\ T.w2_lock[r][1] = 1 => arr[p + 1].w2[r][1] = arr[T.index + 1].w2[r][1]

(* a segment with a locked weight in which an unlocked weight of the same  *)
(* matrix moved                                                            *)
C26_Witness ==
    \E i \in 1..Len(mXORmodel.lstTurningPoints) :
        LET T == mXORmodel.lstTurningPoints[i]
            arr == mXORmodel.xor_array
        IN  \E p \in segment(mXORmodel, i) :
                \/ /\ T.w1_lock[1][1] = 1
                   /\ arr[p + 1].w1 # arr[T.index + 1].w1
                \/ /\ T.w2_lock[3][1] = 1
                   /\ arr[p + 1].w2 # arr[T.index + 1].w2

(* C27: deleteBefore(ix) rebases the hit counters by the counts at the new *)
(* start: the new hits at every kept position p are the old hits at p + ix *)
(* minus the old hits at ix, so the hits at the new position 0 are zero,   *)
(* and the hits do not decrease along the timeline                         *)
C27_DeleteBeforeRebasesHits ==
    [][ lastOp'.name = "deleteBefore" =>
            LET ix == getPos(mXORmodel)
                old == mXORmodel.xor_array
                new == mXORmodel'.xor_array
            IN  /\ Len(new) = Len(old) - ix
                /\ \A p \in 0..(Len(new) - 1) : \A c \in 1..4 :
                      new[p + 1].xHits[c] = old[p + ix + 1].xHits[c] - old[ix + 1].xHits[c]
                /\ new[1].xHits = <<0, 0, 0, 0>>
                /\ \A p \in 1..(Len(new) - 1) : \A c \in 1..4 :
                      new[p].xHits[c] <= new[p + 1].xHits[c] ]_vars

(* a cut before a position after the first one left a timeline with hits *)
C27_Witness ==
    /\ lastOp.name = "deleteBefore"
    /\ lastOp.ix >= 1
    /\ count(mXORmodel) >= 2
    /\ \E c \in 1..4 : Last(mXORmodel.xor_array).xHits[c] > 0

(* C28: after the construction and after every fill, deleteBefore,         *)
(* deleteAfterPos and clone the lists of the turning points, of their diff *)
(* texts and of their final losses have the same length                    *)
C28_ParallelListsSameLength ==
    /\ Len(mXORmodel.lstTurningPointsDiff) = Len(mXORmodel.lstTurningPoints)
    /\ Len(mXORmodel.lst_TP_Final_Loss) = Len(mXORmodel.lstTurningPoints)

(* a cut before a position of the second segment or later left two turning *)
(* points, each with its diff text and its final loss                      *)
C28_Witness ==
    /\ lastOp.name = "deleteBefore"
    /\ lastOp.ix >= 2
    /\ Len(mXORmodel.lstTurningPoints) = 2
    /\ Len(mXORmodel.lstTurningPointsDiff) = 2
    /\ Len(mXORmodel.lst_TP_Final_Loss) = 2

(* C29: after the construction and after every setPos, fill, deleteBefore, *)
(* deleteAfterPos and clone with arguments in range the current position   *)
(* is within 0 .. count() - 1; deleteBefore leaves it at 0, deleteAfterPos *)
(* leaves it at count() - 1, a fill leaves it inside the refilled timeline *)
C29_PositionInRange ==
    /\ 0 <= getPos(mXORmodel)
    /\ getPos(mXORmodel) < count(mXORmodel)
    /\ lastOp.name = "deleteBefore" => getPos(mXORmodel) = 0
    /\ lastOp.name = "deleteAfterPos" => getPos(mXORmodel) = count(mXORmodel) - 1
    /\ lastOp.name = "fillModelFromTP" =>
          getPos(mXORmodel) \in 0..(count(mXORmodel) - 1)

(* a cut before a position after the first one left more than one position *)
C29_Witness ==
    /\ lastOp.name = "deleteBefore"
    /\ lastOp.ix >= 1
    /\ count(mXORmodel) >= 2
    /\ getPos(mXORmodel) = 0

(***************************************************************************)
(* The labels with a lock and their mask                                   *)
(***************************************************************************)
(* TPParamsTab.__init__ appends the label of the next column *)
LabelAppend(bLock) ==
    /\ Len(lstLLB._list) < MaxLabels
    /\ lstLLB' = ListLabels_append(lstLLB, LabelLockBuddy(bLock),
                                   listColumnMap[Len(lstLLB._list) + 1])
    /\ lastOp' = Op("append", Len(lstLLB._list))
    /\ UNCHANGED <<mXORmodel, otherTab, fillFrame, tabModels, StayOnPosOnFillModel, jsonFile, nTrims>>

(* TPParamsTab.setParamsMaskFromModel *)
SetParamsMaskFromModel(msk) ==
    /\ lstLLB' = ListLabels_setMask(lstLLB, msk)
    /\ lstLLB' # lstLLB
    /\ lastOp' = Op("setMask", msk)
    /\ UNCHANGED <<mXORmodel, otherTab, fillFrame, tabModels, StayOnPosOnFillModel, jsonFile, nTrims>>

(* a click on the label pow; sigMaskChanged writes the mask to the model *)
LabelClicked(pow) ==
    /\ pow < Len(lstLLB._list)
    /\ lstLLB' = mouseReleaseEvent(lstLLB, pow)
    /\ mXORmodel' = [mXORmodel EXCEPT !.maskParamLocks = lstLLB'._mask]
    /\ otherTab' = seenByOtherTab(otherTab, mXORmodel')
    /\ lastOp' = Op("mouseReleaseEvent", pow)
    /\ UNCHANGED <<fillFrame, tabModels, StayOnPosOnFillModel, jsonFile, nTrims>>

NextLabels ==
    \/ \E bLock \in BOOLEAN : LabelAppend(bLock)
    \/ \E msk \in 0..(pow2(MaxLabels) - 1) : SetParamsMaskFromModel(msk)
    \/ \E pow \in 0..(MaxLabels - 1) : LabelClicked(pow)

SpecLabels == InitFeed /\ [][NextLabels]_vars

(* C30: after any appends, setMask calls and clicks on labels, the bit i   *)
(* of the mask is set exactly when the i-th appended label is locked, and  *)
(* getColumnsMapLOCKED() is the set of the columns of the locked labels    *)
C30_MaskMatchesLabels ==
    /\ \A i \in 0..(Len(lstLLB._list) - 1) :
          mask_bit(lstLLB._mask, i) <=> lstLLB._list[i + 1]._locked
    /\ ListLabels_getColumnsMapLOCKED(lstLLB) =
          {lstLLB._listColumnMap[i] : i \in {k \in 1..Len(lstLLB._list) : lstLLB._list[k]._locked}}

====
